---------------------------- MODULE Spec2Model ----------------------------
(***************************************************************************)
(* Market-state cache and calendar-spread pipeline of the f2f dashboards.  *)
(*                                                                         *)
(* The repository holds several near-duplicate programs.  The model keeps  *)
(* the programs apart by a suffix on the definition name:                  *)
(*   (none)  f2fspread.py        _main   f2fspread_main.py                 *)
(*   _main1  f2fspread_main1.py  _main2  f2fspread_main2.py                *)
(*   _1      f2fspread1.py       _5      f2fspread5.py                     *)
(*   _f2f    f2f.py                                                        *)
(*                                                                         *)
(* Python values are records tagged by type: None, a float, or a text that *)
(* float() cannot parse.  A float is a fixed-point number with four        *)
(* decimals; round(x, n) rounds half to even on that representation.       *)
(*                                                                         *)
(* The specifications share the variables, each holding the others idle:  *)
(*   Spec        startup poll, streamer, snapshots and get_state           *)
(*   SpecSpread  compute_spreads on every combination of quotes            *)
(*   SpecCsv     the symbol list and the instrument keys derived from it   *)
(*   SpecLock    the threads around market_state_lock                      *)
(*   SpecTear    writers and a reader of one entry, statement by statement *)
(*   SpecFut     get_instrument_keys_for_symbol on any instrument list     *)
(*   SpecSnap    the snapshot file: dump, temporary file, replace, load    *)
(*   SpecPoll    the batch loops of the REST polls, request by request     *)
(*   SpecFrame   on_message, frame by frame                                *)
(*   SpecTick    f2fspread1.py: on_message against the refresh tick        *)
(*   SpecPollLive  SpecPoll with weak fairness of its steps                *)
(*   SpecExpiry  f1.py, futurestockslist.py: the nearest expiry            *)
(*   SpecTable   f2fspread_main1.py: update_table around build_df          *)
(*   SpecRow     build_df: the three get_state calls of one row            *)
(*   SpecQueue   f2fspread5.py: on_message, update_queue, push_updates     *)
(*   SpecQueueLive  SpecQueue with weak fairness of both threads           *)
(*   SpecLru     f2fspread_main.py: concurrent ticks around cached_df      *)
(***************************************************************************)
EXTENDS Integers, Sequences, FiniteSets, TLC

VARIABLES
    \* ---- market-state cache (Spec) ----
    prog,           \* the program that runs: "f2fspread", "f2fspread_main", "f2fspread_main2"
    phase,          \* startup position: "start", "polled", "streaming"
    market_state,   \* the shared dict: instrument key -> {bidP, askP, ltp}
    state_file,     \* f2fspread_main.py: the snapshot at STATE_PATH, NoFile when absent
    op,             \* the operation that ran last
    ret,            \* what the last get_state returned
    ret_ik,         \* the key the last get_state was asked for
    raised,         \* whether the last operation let an exception escape
    loaded,         \* f2fspread_main.py: where the last get_state read from
    \* history of the updates, kept for the properties only
    requested,      \* key -> the values of the last update made for that key
    applied,        \* key -> the values of the last update the cache is meant to hold
    snap_applied,   \* applied, as it stood at the last snapshot written
    \* ---- spread calculator (SpecSpread) ----
    near_s, nxt_s, far_s,   \* the three quote snapshots handed to compute_spreads
    ran,                    \* which program's compute_spreads ran last ("" = none yet)
    spreads,                \* the dict compute_spreads returned
    near_ltp,               \* the divisor compute_spreads used for the percentages
    \* ---- symbol list and instrument keys (SpecCsv) ----
    csv_prog,               \* the program that runs: "f2fspread" or "f2f"
    csv_pc,                 \* "start", "loaded", "keyed", or "exit"
    csv_file,               \* the symbol-list CSV: its underlying_symbol column, or NoFile
    instrument_data_list,   \* the instruments loaded from instruments.json
    underlyings,            \* the symbols loaded from the CSV
    instrument_keys,        \* subscribe_keys (f2fspread.py), all_instrument_keys (f2f.py)
    \* ---- lock discipline (SpecLock) ----
    lk_prog,                \* the program that runs: "f2fspread_main" or "f2fspread_main2"
    lock,                   \* the thread inside 'with market_state_lock', or "free"
    pc,                     \* thread -> where it stands
    todo,                   \* the keys the running write loop has still to assign
    shared,                 \* market_state, as the threads share it
    access,                 \* the last access to market_state
    seen_len,               \* what the last len(market_state) returned
    \* ---- one entry, its writers and a reader (SpecTear) ----
    lock_t,                 \* the thread inside 'with market_state_lock', or "free"
    pc_t,                   \* thread -> where it stands
    ms_t,                   \* market_state
    work_t,                 \* the updates the running write loop has still to make
    get_ik,                 \* the id get_state was called with
    s_t,                    \* get_state's local s
    got_t,                  \* the fields get_state has read so far
    issued,                 \* id -> the updates extracted for it so far
    last_t,                 \* id -> the update written to it last
    \* ---- the nearest futures of a symbol (SpecFut) ----
    fut_pc,                 \* "call" before get_instrument_keys_for_symbol, "done" after
    fut_symbol,             \* its argument symbol
    fut_instruments,        \* its argument instruments
    futs,                   \* the list it returned
    \* ---- the snapshot file (SpecSnap) ----
    sn_lock,                \* the thread inside 'with market_state_lock', or "free"
    sn_pc,                  \* thread -> where it stands
    sn_ms,                  \* market_state
    sn_snap,                \* snapshot caller -> its local snap
    sn_tmp,                 \* snapshot caller -> its local tmp
    sn_at,                  \* snapshot caller -> market_state when it took the lock
    sn_fs,                  \* the directory of STATE_PATH: name -> file
    sn_file_at,             \* market_state when the dump now at STATE_PATH was taken
    sn_open,                \* the file load_state_from_file has opened
    sn_state,               \* what load_state_from_file returned
    \* ---- the batch loop of the REST poll (SpecPoll) ----
    p_prog,                 \* the program that runs
    p_keys,                 \* subscribe_keys (all_instrument_keys in f2f.py)
    p_pc,                   \* "loop", "request", "done" or, with the streamer on, "streaming"
    p_i,                    \* the loop variable i, counted from 1
    p_attempt,              \* the loop variable attempt
    p_batch,                \* keys_batch (chunk in f2f.py)
    p_ms,                   \* market_state (ltp_data in f2f.py)
    p_log,                  \* the requests made so far, and what each of them wrote
    p_end,                  \* "running", "returned", "interrupted" (the loop was left
                            \* by the handler around it) or "raised"
    \* ---- on_message, frame by frame (SpecFrame) ----
    fr_prog,                \* the program that runs
    fr_ms,                  \* market_state
    fr_message,             \* the frame on_message was last called with
    fr_calls,               \* the number of calls so far, modulo 2
    \* ---- the refresh tick of f2fspread1.py (SpecTick) ----
    tk_pc,                  \* thread -> where it stands
    last_update_ts,         \* 0 (0.0 at start), or 1 for a time.time() value
    updated_symbols,        \* the set updated_symbols
    tk_written,             \* the ids market_state has an entry for
    tk_feeds,               \* the feeds on_message has still to go through
    trigger_ts,             \* update_table's local trigger_ts
    tk_ret,                 \* what update_table returned
    tk_begun,               \* on_message has been called
    tk_done,                \* the update of an instrument has been processed
    tk_after,               \* tk_done, as it was when the running tick started
    \* ---- the nearest expiry (SpecExpiry) ----
    ex_prog,                \* "f1" or "futurestockslist"
    ex_pc,                  \* "call", "done"
    ex_now,                 \* datetime.now(UTC), as a stamp
    ex_key,                 \* the underlying asked for
    ex_instruments,         \* the records of instruments.json
    ex_ret,                 \* what the function returned
    ex_out,                 \* f1.py: what fetch_option_chain did with the instrument
    \* ---- update_table of f2fspread_main1.py (SpecTable) ----
    ut_pc,                  \* "idle", "try", "built", "except"
    ut_df,                  \* what build_df(...).fillna("") gave: a frame or an exception
    ut_ret,                 \* what the last call of update_table returned
    ut_shown,               \* the outputs the dashboard last received
    ut_raised,              \* the exception the last call let escape, None when none
    \* ---- one row of build_df against the writers (SpecRow) ----
    rw_prog,                \* "f2fspread" or "f2fspread_main"
    rw_ms,                  \* market_state
    rw_file,                \* f2fspread_main.py: the snapshot file
    rw_hist,                \* the states market_state has gone through, in order
    rw_pc,                  \* build_df: "idle", "reading" or "row"
    rw_row,                 \* the quotes read for the row so far: near_s, nxt_s, far_s
    \* ---- update_queue of f2fspread5.py (SpecQueue) ----
    q_lock,                 \* market_state_lock: "free" or the thread that holds it
    q_pc,                   \* thread -> where it stands
    q_todo,                 \* the feeds on_message has still to go through
    q_ms,                   \* market_state
    update_queue,           \* the list update_queue
    q_in,                   \* every key appended to update_queue, in order
    q_out,                  \* every key popped from update_queue, in order
    q_emits,                \* the table_update emissions: which pop, which underlying
    affected_symbol,        \* push_updates: the key it popped
    q_sym,                  \* push_updates: the position of the loop over underlyings
    \* ---- cached_df of f2fspread_main.py under concurrent ticks (SpecLru) ----
    lr_pc,                  \* tick thread -> where it stands
    lr_cache,               \* the one slot of lru_cache(maxsize=1): None or a table
    lr_df,                  \* tick thread -> what its call of cached_df() has in hand
    lr_ret,                 \* tick thread -> the table its last tick returned
    lr_start,               \* tick thread -> the version of the state when its tick started
    lr_version              \* the number of updates the state read by build_df has had

cacheVars == <<prog, phase, market_state, state_file, op, ret, ret_ik, raised, loaded,
               requested, applied, snap_applied>>
spreadVars == <<near_s, nxt_s, far_s, ran, spreads, near_ltp>>
csvVars == <<csv_prog, csv_pc, csv_file, instrument_data_list, underlyings, instrument_keys>>
lockVars == <<lk_prog, lock, pc, todo, shared, access, seen_len>>
tearVars == <<lock_t, pc_t, ms_t, work_t, get_ik, s_t, got_t, issued, last_t>>
futVars == <<fut_pc, fut_symbol, fut_instruments, futs>>
snapVars == <<sn_lock, sn_pc, sn_ms, sn_snap, sn_tmp, sn_at, sn_fs, sn_file_at, sn_open, sn_state>>
pollVars == <<p_prog, p_keys, p_pc, p_i, p_attempt, p_batch, p_ms, p_log, p_end>>
frameVars == <<fr_prog, fr_ms, fr_message, fr_calls>>
tickVars == <<tk_pc, last_update_ts, updated_symbols, tk_written, tk_feeds, trigger_ts, tk_ret,
              tk_begun, tk_done, tk_after>>
oldVars == <<cacheVars, spreadVars, csvVars, lockVars>>
expVars == <<ex_prog, ex_pc, ex_now, ex_key, ex_instruments, ex_ret, ex_out>>
midVars == <<tearVars, futVars, snapVars, pollVars, frameVars, tickVars>>
utVars == <<ut_pc, ut_df, ut_ret, ut_shown, ut_raised>>
rowVars == <<rw_prog, rw_ms, rw_file, rw_hist, rw_pc, rw_row>>
q5Vars == <<q_lock, q_pc, q_todo, q_ms, update_queue, q_in, q_out, q_emits, affected_symbol, q_sym>>
lruVars == <<lr_pc, lr_cache, lr_df, lr_ret, lr_start, lr_version>>
lateVars == <<expVars, utVars, rowVars, q5Vars, lruVars>>
moreVars == <<midVars, lateVars>>
expOthers == <<oldVars, midVars, utVars, rowVars, q5Vars, lruVars>>
utOthers == <<oldVars, midVars, expVars, rowVars, q5Vars, lruVars>>
rowOthers == <<oldVars, midVars, expVars, utVars, q5Vars, lruVars>>
q5Others == <<oldVars, midVars, expVars, utVars, rowVars, lruVars>>
lruOthers == <<oldVars, midVars, expVars, utVars, rowVars, q5Vars>>
tearOthers == <<oldVars, futVars, snapVars, pollVars, frameVars, tickVars, lateVars>>
futOthers == <<oldVars, tearVars, snapVars, pollVars, frameVars, tickVars, lateVars>>
snapOthers == <<oldVars, tearVars, futVars, pollVars, frameVars, tickVars, lateVars>>
pollOthers == <<oldVars, tearVars, futVars, snapVars, frameVars, tickVars, lateVars>>
frameOthers == <<oldVars, tearVars, futVars, snapVars, pollVars, tickVars, lateVars>>
tickOthers == <<oldVars, tearVars, futVars, snapVars, pollVars, frameVars, lateVars>>
vars == <<cacheVars, spreadVars, csvVars, lockVars, moreVars>>

-----------------------------------------------------------------------------
(* Bounds *)
MaxInstruments == 4   \* instruments.json has up to MaxInstruments records
MaxKeys == 5      \* the poll is given up to MaxKeys keys
batch_size == 2   \* 490 in initial_rest_poll, 500 in f2f.py: scaled down, so that
                  \* MaxKeys keys make more than one batch
MaxRows == 3      \* the symbol-list CSV has up to MaxRows rows
MaxPrice == 1     \* bids and asks range over 0..MaxPrice
MaxLtp == 3       \* last prices range over 0..MaxLtp
MaxQuote == 1     \* prices on the feed and in REST responses range over 1..MaxQuote

-----------------------------------------------------------------------------
(* Python values *)
None == [t |-> "None"]
F(n) == [t |-> "float", v |-> n]
Str(x) == [t |-> "str", s |-> x]
Text == Str("n/a")
ZeroDivisionError == [t |-> "ZeroDivisionError"]
EmptyDict == [k \in {} |-> None]

\* dict.get(k): None when the key is absent
Get(d, k) == IF k \in DOMAIN d THEN d[k] ELSE None

\* truthiness of a Python value: None and 0.0 are falsy
Truthy(x) == x.t # "None" /\ ~(x.t = "float" /\ x.v = 0)

\* Floats are fixed-point numbers: F(n) stands for n * 10^-4, so 1.0 is F(Unit)
Unit == 10000
Price(p) == F(p * Unit)

\* nearest integer to num/den (den > 0), ties to even
RoundHalfEven(num, den) ==
    LET q == num \div den
        r == num % den
    IN  IF 2 * r < den THEN q
        ELSE IF 2 * r > den THEN q + 1
        ELSE IF q % 2 = 0 THEN q ELSE q + 1

\* Python's round(x, 4) for x = num/den units of 10^-4, and round(x, 2) for
\* x = num/den units of 10^-2; both results are fixed-point numbers
round4(num, den) == RoundHalfEven(num, den)
round2(num, den) == 100 * RoundHalfEven(num, den)

safe_float(x) == IF x.t = "float" THEN x ELSE None

diff_reversed(a, b) ==
    IF a.t # "None" /\ b.t # "None" THEN F(round4(b.v - a.v, 1)) ELSE None

diff_zero(a, b) ==
    F(round4((IF a.t = "None" THEN 0 ELSE a.v) - (IF b.t = "None" THEN 0 ELSE b.v), 1))

\* round(a - b, 4), None when an operand is None
diff(a, b) ==
    IF a.t # "None" /\ b.t # "None" THEN F(round4(a.v - b.v, 1)) ELSE None

\* round((d / near_ltp) * 100, 2): (d / nl) * 100 is d.v * Unit / nl.v hundredths;
\* the division raises on a zero divisor
pct_value(d, nl) ==
    IF nl.v = 0 THEN ZeroDivisionError ELSE F(round2(d.v * Unit, nl.v))

-----------------------------------------------------------------------------
(* Market-state cache: the entries, the feed and the REST responses *)

\* market_state[ik] = {"bidP": bid, "askP": ask, "ltp": ltp}; the "ts" field
\* that f2fspread.py adds is written and never read, and is left out
Entry(bid, ask, ltp) == [bidP |-> bid, askP |-> ask, ltp |-> ltp]
NullEntry == Entry(None, None, None)

\* the instrument keys the program subscribes to: f2fspread.py is run with
\* two instruments, the other programs with one
subscribe_keys(p) == IF p = "f2fspread" THEN <<"K1", "K2">> ELSE <<"K1">>
Range(q) == {q[i] : i \in 1..Len(q)}
Keys == Range(subscribe_keys("f2fspread"))

\* a last price as it arrives: missing, a number, or something float()
\* rejects; a price of the depth: missing or a number
RawVals == {None, Text} \cup {Price(p) : p \in 1..MaxQuote}
DepthVals == {None} \cup {Price(p) : p \in 1..MaxQuote}

\* a feed payload, flattened: payload.fullFeed.marketFF.ltpc.ltp and
\* payload.fullFeed.marketFF.marketLevel.bidAskQuote
Levels == {<<>>} \cup {<<[bidP |-> b, askP |-> a]>> : b \in DepthVals, a \in DepthVals}
Payloads == [ltp : RawVals, bidAskQuote : Levels]

\* the values on_message extracts from one payload
feed_quote(payload) ==
    LET ltp == safe_float(payload.ltp)
        depth_list == payload.bidAskQuote
        bid == IF depth_list # <<>> THEN safe_float(Get(depth_list[1], "bidP")) ELSE None
        ask == IF depth_list # <<>> THEN safe_float(Get(depth_list[1], "askP")) ELSE None
    IN  Entry(bid, ask, ltp)

on_message_state_any_type(ms, message) ==
    [k \in DOMAIN ms \cup DOMAIN message.feeds |->
        IF k \in DOMAIN message.feeds THEN feed_quote(message.feeds[k]) ELSE ms[k]]

\* market_state after on_message(message): every key of feeds is assigned
on_message_state(ms, message) ==
    IF message.type # "live_feed" THEN ms
    ELSE LET feeds == message.feeds
         IN  [k \in DOMAIN ms \cup DOMAIN feeds |->
                 IF k \in DOMAIN feeds THEN feed_quote(feeds[k]) ELSE ms[k]]

on_message_state_main(ms, message) ==
    IF message.type # "live_feed" THEN ms
    ELSE LET feeds == message.feeds
         IN  [k \in DOMAIN ms \cup DOMAIN feeds |->
                 IF k \in DOMAIN feeds THEN feed_quote(feeds[k]) ELSE ms[k]]

\* f2fspread_main2.py returns early on empty feeds; str(ik_raw) of a text key
\* is the key
on_message_state_main2(ms, message) ==
    IF message.type # "live_feed" THEN ms
    ELSE LET feeds == message.feeds
         IN  IF DOMAIN feeds = {} THEN ms
             ELSE [k \in DOMAIN ms \cup DOMAIN feeds |->
                      IF k \in DOMAIN feeds THEN feed_quote(feeds[k]) ELSE ms[k]]

\* the messages the streamer delivers: a live feed quoting some of the keys
\* (the keys of one message carry the same payload), or another frame type
Messages(p) ==
    {[type |-> "live_feed", feeds |-> [k \in S |-> pl]] :
        S \in SUBSET Range(subscribe_keys(p)), pl \in Payloads}
    \cup {[type |-> "market_info", feeds |-> EmptyDict]}

\* one quote of a REST response: quote.depth.buy, quote.depth.sell,
\* quote.last_price, quote.instrument_token
PriceLevels == {<<>>} \cup {<<[price |-> r]>> : r \in DepthVals}
Tokens == {None} \cup {Str(k) : k \in Keys}
Quotes == [buy : PriceLevels, sell : PriceLevels, last_price : RawVals,
           instrument_token : Tokens]

\* the values initial_rest_poll extracts from one quote
rest_quote(quote) ==
    LET buy_depth == quote.buy
        sell_depth == quote.sell
        bid == IF buy_depth # <<>> THEN safe_float(Get(buy_depth[1], "price")) ELSE None
        ask == IF sell_depth # <<>> THEN safe_float(Get(sell_depth[1], "price")) ELSE None
        ltp == safe_float(quote.last_price)
    IN  Entry(bid, ask, ltp)

\* ik = quote.get("instrument_token") or ik_long
rest_key(ik_long, quote) ==
    IF Truthy(quote.instrument_token) THEN quote.instrument_token.s ELSE ik_long

AllNull(e) == e.bidP = None /\ e.askP = None /\ e.ltp = None

Put(ms, k, e) == [x \in DOMAIN ms \cup {k} |-> IF x = k THEN e ELSE ms[x]]

\* f2fspread.py, the loop over data.items(): an item is written unless its
\* bid, ask and ltp are all None.  data is the list of (ik_long, quote) in
\* the order of the response.
RECURSIVE rest_apply_unguarded(_, _)
rest_apply_unguarded(ms, data) ==
    IF data = <<>> THEN ms
    ELSE LET item == Head(data)
             e == rest_quote(item.quote)
             ik == rest_key(item.ik_long, item.quote)
         IN  rest_apply_unguarded(Put(ms, ik, e), Tail(data))

RECURSIVE rest_apply(_, _)
rest_apply(ms, data) ==
    IF data = <<>> THEN ms
    ELSE LET item == Head(data)
             e == rest_quote(item.quote)
             ik == rest_key(item.ik_long, item.quote)
         IN  rest_apply(IF ~AllNull(e) THEN Put(ms, ik, e) ELSE ms, Tail(data))

\* f2fspread_main.py: every item is written, under the key of the response
RECURSIVE rest_apply_main(_, _)
rest_apply_main(ms, data) ==
    IF data = <<>> THEN ms
    ELSE LET item == Head(data)
         IN  rest_apply_main(Put(ms, item.ik_long, rest_quote(item.quote)), Tail(data))

\* f2fspread_main2.py: every item is written, under str(token or ik_long)
RECURSIVE rest_apply_main2(_, _)
rest_apply_main2(ms, data) ==
    IF data = <<>> THEN ms
    ELSE LET item == Head(data)
             ik == rest_key(item.ik_long, item.quote)
         IN  rest_apply_main2(Put(ms, ik, rest_quote(item.quote)), Tail(data))

\* what one requests.get of the poll can come back with
Ok(data) == [kind |-> "ok", status |-> 200, data |-> data]
HTTPError(status) == [kind |-> "HTTPError", status |-> status, data |-> <<>>]
Timeout == [kind |-> "Timeout", status |-> 0, data |-> <<>>]
RequestException == [kind |-> "RequestException", status |-> 0, data |-> <<>>]
Exception == [kind |-> "Exception", status |-> 0, data |-> <<>>]

max_retries == 3

\* f2fspread.py, the retry loop of one batch: attempts[i] is what the i-th
\* request comes back with.  A success is applied and ends the loop; a 401
\* is re-raised to the handler around the loop; another HTTP error or a
\* timeout is retried while attempts remain; anything else ends the loop.
RECURSIVE poll_batch(_, _, _)
poll_batch(ms, attempts, attempt) ==
    IF attempt >= max_retries THEN ms
    ELSE LET r == attempts[attempt + 1]
         IN  CASE r.kind = "ok" -> rest_apply(ms, r.data)
               [] r.kind = "HTTPError" /\ r.status = 401 -> ms
               [] r.kind \in {"HTTPError", "Timeout"} -> poll_batch(ms, attempts, attempt + 1)
               [] OTHER -> ms

\* f2fspread_main.py and f2fspread_main2.py: one request per batch, applied
\* when its status is 200
poll_batch_main(ms, r) == IF r.kind = "ok" THEN rest_apply_main(ms, r.data) ELSE ms
poll_batch_main2(ms, r) == IF r.kind = "ok" THEN rest_apply_main2(ms, r.data) ELSE ms

\* the responses the server gives to the poll
Items(p) == [ik_long : Range(subscribe_keys(p)), quote : Quotes]
DataLists(p) ==
    {<<>>} \cup {<<i>> : i \in Items(p)}
    \cup {d \in {<<i, j>> : i \in Items(p), j \in Items(p)} : d[1].ik_long # d[2].ik_long}
Retryable == {HTTPError(500), Timeout}
Fatal == {HTTPError(401), RequestException, Exception}
Responses(p) == {Ok(d) : d \in DataLists(p)} \cup Retryable \cup Fatal

\* the runs of the retry loop: a first answer of any kind, or up to
\* max_retries - 1 retryable failures followed by a last answer
Attempts(p) ==
    {<<r>> : r \in {Ok(d) : d \in DataLists(p)} \cup Fatal}
    \cup {<<f, r>> : f \in Retryable, r \in {Ok(<<i>>) : i \in Items(p)} \cup Fatal}
    \cup {<<f, g, r>> : f \in Retryable, g \in Retryable,
                        r \in {Ok(<<i>>) : i \in Items(p)} \cup Fatal \cup Retryable}

-----------------------------------------------------------------------------
(* Market-state cache: the snapshot file and get_state *)

NoFile == [t |-> "absent"]

\* json.dumps / json.load: None is written as null, a float as a number
json_value(x) == IF x.t = "None" THEN [j |-> "null"] ELSE [j |-> "number", n |-> x.v]
json_parse(y) == IF y.j = "null" THEN None ELSE F(y.n)
json_dumps(ms) ==
    [t |-> "file",
     text |-> [k \in DOMAIN ms |-> [f \in DOMAIN ms[k] |-> json_value(ms[k][f])]]]
json_load(file) ==
    [k \in DOMAIN file.text |->
        [f \in DOMAIN file.text[k] |-> json_parse(file.text[k][f])]]

\* snapshot_state_to_file: os.replace puts the new text in place at once; when
\* a step before it fails the file stays as it was
snapshot_state_to_file(file, ms, ok) == IF ok THEN json_dumps(ms) ELSE file

\* load_state_from_file: the file when it exists and can be read, else a copy
\* of market_state
load_state_from_file(file, ms, readable) ==
    IF file # NoFile /\ readable THEN json_load(file) ELSE ms

KeyError == [error |-> "KeyError"]

get_state_index(ms, ik, tsym) ==
    IF ik \in DOMAIN ms
    THEN [symbol |-> tsym, bidP |-> ms[ik].bidP, askP |-> ms[ik].askP, ltp |-> ms[ik].ltp]
    ELSE KeyError

get_state_swapped(ms, ik, tsym) ==
    LET s == IF ik \in DOMAIN ms THEN ms[ik] ELSE EmptyDict
    IN  [symbol |-> tsym, bidP |-> Get(s, "askP"), askP |-> Get(s, "bidP"),
         ltp |-> Get(s, "ltp")]

\* f2fspread.py: s = market_state.get(ik, {})
get_state(ms, ik, tsym) ==
    LET s == IF ik \in DOMAIN ms THEN ms[ik] ELSE EmptyDict
    IN  [symbol |-> tsym, bidP |-> Get(s, "bidP"), askP |-> Get(s, "askP"),
         ltp |-> Get(s, "ltp")]

\* f2fspread_main.py: state = load_state_from_file(); state.get(ik, default)
get_state_main(file, ms, ik, readable) ==
    LET state == load_state_from_file(file, ms, readable)
    IN  IF ik \in DOMAIN state THEN state[ik] ELSE NullEntry

\* f2fspread_main2.py: market_state.get(str(ik), default)
get_state_main2(ms, ik) == IF ik \in DOMAIN ms THEN ms[ik] ELSE NullEntry

-----------------------------------------------------------------------------
(* Each specification runs one part of the system and holds the others idle *)

Threads == {"main", "stream", "ui", "snap"}
NoAccess == [by |-> "", site |-> "", kind |-> "", held |-> TRUE]

IdleSpread ==
    /\ near_s = EmptyDict /\ nxt_s = EmptyDict /\ far_s = EmptyDict
    /\ ran = "idle" /\ spreads = EmptyDict /\ near_ltp = None

IdleCache ==
    /\ prog = "" /\ phase = "off" /\ market_state = EmptyDict /\ state_file = NoFile
    /\ op = "init" /\ ret = None /\ ret_ik = "" /\ raised = FALSE /\ loaded = ""
    /\ requested = EmptyDict /\ applied = EmptyDict /\ snap_applied = EmptyDict

IdleCsv ==
    /\ csv_prog = "" /\ csv_pc = "off" /\ csv_file = NoFile
    /\ instrument_data_list = <<>> /\ underlyings = <<>> /\ instrument_keys = <<>>

IdleLock ==
    /\ lk_prog = "" /\ lock = "" /\ pc = [th \in Threads |-> "off"]
    /\ todo = <<>> /\ shared = EmptyDict /\ access = NoAccess /\ seen_len = 0

IdleTear ==
    /\ lock_t = "" /\ pc_t = EmptyDict /\ ms_t = EmptyDict /\ work_t = <<>>
    /\ get_ik = "" /\ s_t = EmptyDict /\ got_t = EmptyDict
    /\ issued = EmptyDict /\ last_t = EmptyDict

IdleFut == fut_pc = "off" /\ fut_symbol = None /\ fut_instruments = <<>> /\ futs = <<>>

IdleSnap ==
    /\ sn_lock = "" /\ sn_pc = EmptyDict /\ sn_ms = EmptyDict /\ sn_snap = EmptyDict
    /\ sn_tmp = EmptyDict /\ sn_at = EmptyDict /\ sn_fs = EmptyDict
    /\ sn_file_at = EmptyDict /\ sn_open = NoFile /\ sn_state = None

IdlePoll ==
    /\ p_prog = "" /\ p_keys = <<>> /\ p_pc = "off" /\ p_i = 0 /\ p_attempt = 0
    /\ p_batch = <<>> /\ p_ms = EmptyDict /\ p_log = <<>> /\ p_end = ""

IdleFrame == fr_prog = "" /\ fr_ms = EmptyDict /\ fr_message = None /\ fr_calls = 0

IdleTick ==
    /\ tk_pc = EmptyDict /\ last_update_ts = 0 /\ updated_symbols = {} /\ tk_written = {}
    /\ tk_feeds = <<>> /\ trigger_ts = 0 /\ tk_ret = None
    /\ tk_begun = FALSE /\ tk_done = FALSE /\ tk_after = FALSE

IdleExp ==
    /\ ex_prog = "" /\ ex_pc = "off" /\ ex_now = 0 /\ ex_key = None
    /\ ex_instruments = <<>> /\ ex_ret = None /\ ex_out = ""

IdleUt ==
    ut_pc = "off" /\ ut_df = None /\ ut_ret = None /\ ut_shown = None /\ ut_raised = None

IdleRow ==
    /\ rw_prog = "" /\ rw_ms = EmptyDict /\ rw_file = NoFile /\ rw_hist = <<>>
    /\ rw_pc = "off" /\ rw_row = <<>>

IdleQ5 ==
    /\ q_lock = "" /\ q_pc = EmptyDict /\ q_todo = <<>> /\ q_ms = EmptyDict
    /\ update_queue = <<>> /\ q_in = <<>> /\ q_out = <<>> /\ q_emits = <<>>
    /\ affected_symbol = None /\ q_sym = 0

IdleLru ==
    /\ lr_pc = EmptyDict /\ lr_cache = None /\ lr_df = EmptyDict /\ lr_ret = EmptyDict
    /\ lr_start = EmptyDict /\ lr_version = 0

IdleMid == IdleTear /\ IdleFut /\ IdleSnap /\ IdlePoll /\ IdleFrame /\ IdleTick
IdleLate == IdleExp /\ IdleUt /\ IdleRow /\ IdleQ5 /\ IdleLru
IdleMore == IdleMid /\ IdleLate
IdleOld == IdleCache /\ IdleSpread /\ IdleCsv /\ IdleLock
IdleTearOthers == IdleOld /\ IdleFut /\ IdleSnap /\ IdlePoll /\ IdleFrame /\ IdleTick /\ IdleLate
IdleFutOthers == IdleOld /\ IdleTear /\ IdleSnap /\ IdlePoll /\ IdleFrame /\ IdleTick /\ IdleLate
IdleSnapOthers == IdleOld /\ IdleTear /\ IdleFut /\ IdlePoll /\ IdleFrame /\ IdleTick /\ IdleLate
IdlePollOthers == IdleOld /\ IdleTear /\ IdleFut /\ IdleSnap /\ IdleFrame /\ IdleTick /\ IdleLate
IdleFrameOthers == IdleOld /\ IdleTear /\ IdleFut /\ IdleSnap /\ IdlePoll /\ IdleTick /\ IdleLate
IdleTickOthers == IdleOld /\ IdleTear /\ IdleFut /\ IdleSnap /\ IdlePoll /\ IdleFrame /\ IdleLate
IdleExpOthers == IdleOld /\ IdleMid /\ IdleUt /\ IdleRow /\ IdleQ5 /\ IdleLru
IdleUtOthers == IdleOld /\ IdleMid /\ IdleExp /\ IdleRow /\ IdleQ5 /\ IdleLru
IdleRowOthers == IdleOld /\ IdleMid /\ IdleExp /\ IdleUt /\ IdleQ5 /\ IdleLru
IdleQ5Others == IdleOld /\ IdleMid /\ IdleExp /\ IdleUt /\ IdleRow /\ IdleLru
IdleLruOthers == IdleOld /\ IdleMid /\ IdleExp /\ IdleUt /\ IdleRow /\ IdleQ5

-----------------------------------------------------------------------------
(* Market-state cache: the history of the updates, kept for the properties *)

\* the updates a response asks for, in order: the key each item is stored
\* under and the values extracted from it
Updates(p, data) ==
    [i \in 1..Len(data) |->
        [k |-> IF p = "f2fspread_main" THEN data[i].ik_long
               ELSE rest_key(data[i].ik_long, data[i].quote),
         q |-> rest_quote(data[i].quote)]]

\* the data the retry loop gets hold of: that of the first answer that is
\* not a retryable failure, when it is a success within max_retries attempts
Delivered(attempts) ==
    LET stops == {i \in 1..Len(attempts) : attempts[i].kind \notin {"HTTPError", "Timeout"}
                                           \/ attempts[i].status = 401}
    IN  IF stops = {} THEN <<>>
        ELSE LET i == CHOOSE x \in stops : \A y \in stops : x <= y
             IN  IF i <= max_retries /\ attempts[i].kind = "ok" THEN attempts[i].data
                 ELSE <<>>

\* h with, for every key of w, the last update of w for that key, made by `by`
Record(h, w, by) ==
    LET last(k) == CHOOSE i \in DOMAIN w :
                       w[i].k = k /\ \A j \in DOMAIN w : (w[j].k = k) => (j <= i)
    IN  [k \in DOMAIN h \cup {w[i].k : i \in DOMAIN w} |->
            IF \E i \in DOMAIN w : w[i].k = k THEN [by |-> by, q |-> w[last(k)].q] ELSE h[k]]

NonNull(u) == ~AllNull(u.q)

\* the updates of a feed message, one per key of feeds
FeedRecord(h, message) ==
    IF message.type # "live_feed" THEN h
    ELSE [k \in DOMAIN h \cup DOMAIN message.feeds |->
             IF k \in DOMAIN message.feeds
             THEN [by |-> "on_message", q |-> feed_quote(message.feeds[k])]
             ELSE h[k]]

-----------------------------------------------------------------------------
(* Spec: startup (poll, then streamer), the feed, the snapshots, get_state *)

Progs == {"f2fspread", "f2fspread_main", "f2fspread_main2"}

\* a fresh start: nothing cached, no snapshot file left by an earlier run
Init ==
    /\ prog \in Progs
    /\ phase = "start"
    /\ market_state = EmptyDict
    /\ state_file = NoFile
    /\ op = "init" /\ ret = None /\ ret_ik = "" /\ raised = FALSE /\ loaded = ""
    /\ requested = EmptyDict /\ applied = EmptyDict /\ snap_applied = EmptyDict
    /\ IdleSpread /\ IdleCsv /\ IdleLock /\ IdleMore

\* a step that is not get_state returns nothing to the dashboard
NoReturn == ret' = None /\ ret_ik' = "" /\ raised' = FALSE /\ loaded' = ""

may_poll_any(ph) == ph \in {"start", "streaming"}

\* initial_rest_poll(subscribe_keys) is called once, by the startup code,
\* before start_sdk_streamer
may_poll(ph) == ph = "start"

\* f2fspread.py: the keys fit one batch (batch_size = 490)
initial_rest_poll ==
    /\ prog = "f2fspread" /\ may_poll(phase)
    /\ \E attempts \in Attempts(prog) :
          /\ market_state' = poll_batch(market_state, attempts, 0)
          /\ LET w == Updates(prog, Delivered(attempts))
             IN  /\ requested' = Record(requested, w, "initial_rest_poll")
                 /\ applied' = Record(applied, SelectSeq(w, NonNull), "initial_rest_poll")
    /\ phase' = "polled" /\ op' = "initial_rest_poll" /\ NoReturn
    /\ UNCHANGED <<prog, state_file, snap_applied, spreadVars, csvVars, lockVars, moreVars>>

initial_rest_poll_main ==
    /\ prog = "f2fspread_main" /\ may_poll(phase)
    /\ \E r \in Responses(prog) :
          /\ market_state' = poll_batch_main(market_state, r)
          /\ LET w == Updates(prog, IF r.kind = "ok" THEN r.data ELSE <<>>)
             IN  /\ requested' = Record(requested, w, "initial_rest_poll")
                 /\ applied' = Record(applied, w, "initial_rest_poll")
    /\ phase' = "polled" /\ op' = "initial_rest_poll" /\ NoReturn
    /\ UNCHANGED <<prog, state_file, snap_applied, spreadVars, csvVars, lockVars, moreVars>>

initial_rest_poll_main2 ==
    /\ prog = "f2fspread_main2" /\ may_poll(phase)
    /\ \E r \in Responses(prog) :
          /\ market_state' = poll_batch_main2(market_state, r)
          /\ LET w == Updates(prog, IF r.kind = "ok" THEN r.data ELSE <<>>)
             IN  /\ requested' = Record(requested, w, "initial_rest_poll")
                 /\ applied' = Record(applied, w, "initial_rest_poll")
    /\ phase' = "polled" /\ op' = "initial_rest_poll" /\ NoReturn
    /\ UNCHANGED <<prog, state_file, snap_applied, spreadVars, csvVars, lockVars, moreVars>>

\* the streamer is started once the poll has returned
start_sdk_streamer ==
    /\ phase = "polled"
    /\ phase' = "streaming" /\ op' = "start_sdk_streamer" /\ NoReturn
    /\ UNCHANGED <<prog, market_state, state_file, requested, applied, snap_applied,
                   spreadVars, csvVars, lockVars, moreVars>>

on_message ==
    /\ prog = "f2fspread" /\ phase = "streaming"
    /\ \E message \in Messages(prog) :
          /\ market_state' = on_message_state(market_state, message)
          /\ requested' = FeedRecord(requested, message)
          /\ applied' = FeedRecord(applied, message)
    /\ op' = "on_message" /\ NoReturn
    /\ UNCHANGED <<prog, phase, state_file, snap_applied, spreadVars, csvVars, lockVars, moreVars>>

on_message_main ==
    /\ prog = "f2fspread_main" /\ phase = "streaming"
    /\ \E message \in Messages(prog) :
          /\ market_state' = on_message_state_main(market_state, message)
          /\ requested' = FeedRecord(requested, message)
          /\ applied' = FeedRecord(applied, message)
    /\ op' = "on_message" /\ NoReturn
    /\ UNCHANGED <<prog, phase, state_file, snap_applied, spreadVars, csvVars, lockVars, moreVars>>

on_message_main2 ==
    /\ prog = "f2fspread_main2" /\ phase = "streaming"
    /\ \E message \in Messages(prog) :
          /\ market_state' = on_message_state_main2(market_state, message)
          /\ requested' = FeedRecord(requested, message)
          /\ applied' = FeedRecord(applied, message)
    /\ op' = "on_message" /\ NoReturn
    /\ UNCHANGED <<prog, phase, state_file, snap_applied, spreadVars, csvVars, lockVars, moreVars>>

\* f2fspread_main.py, one round of _snapper
Snapshot ==
    /\ prog = "f2fspread_main" /\ phase = "streaming"
    /\ \E ok \in BOOLEAN :
          /\ state_file' = snapshot_state_to_file(state_file, market_state, ok)
          /\ snap_applied' = IF ok THEN applied ELSE snap_applied
    /\ op' = "snapshot_state_to_file" /\ NoReturn
    /\ UNCHANGED <<prog, phase, market_state, requested, applied, spreadVars,
                   csvVars, lockVars, moreVars>>

tsym == Str("FUT")

GetState ==
    /\ prog = "f2fspread" /\ phase = "streaming"
    /\ \E ik \in Keys :
          /\ ret' = get_state(market_state, ik, tsym)
          /\ ret_ik' = ik
    /\ raised' = ("error" \in DOMAIN ret')
    /\ loaded' = "memory" /\ op' = "get_state"
    /\ UNCHANGED <<prog, phase, market_state, state_file, requested, applied,
                   snap_applied, spreadVars, csvVars, lockVars, moreVars>>

GetState_main ==
    /\ prog = "f2fspread_main" /\ phase = "streaming"
    /\ \E ik \in Keys, readable \in BOOLEAN :
          /\ ret' = get_state_main(state_file, market_state, ik, readable)
          /\ ret_ik' = ik
          /\ loaded' = IF state_file # NoFile /\ readable THEN "file" ELSE "memory"
    /\ raised' = ("error" \in DOMAIN ret')
    /\ op' = "get_state"
    /\ UNCHANGED <<prog, phase, market_state, state_file, requested, applied,
                   snap_applied, spreadVars, csvVars, lockVars, moreVars>>

GetState_main2 ==
    /\ prog = "f2fspread_main2" /\ phase = "streaming"
    /\ \E ik \in Keys :
          /\ ret' = get_state_main2(market_state, ik)
          /\ ret_ik' = ik
    /\ raised' = ("error" \in DOMAIN ret')
    /\ loaded' = "memory" /\ op' = "get_state"
    /\ UNCHANGED <<prog, phase, market_state, state_file, requested, applied,
                   snap_applied, spreadVars, csvVars, lockVars, moreVars>>

Next ==
    \/ initial_rest_poll
    \/ initial_rest_poll_main
    \/ initial_rest_poll_main2
    \/ start_sdk_streamer
    \/ on_message
    \/ on_message_main
    \/ on_message_main2
    \/ Snapshot
    \/ GetState
    \/ GetState_main
    \/ GetState_main2

Spec == Init /\ [][Next]_vars

-----------------------------------------------------------------------------
(* Spread calculator: compute_spreads of each program *)

\* the tokens of a result key, for the tests '"Near" in k', '"Next" in k', '"Buy" in k'
KeyTokens(k) ==
    CASE k = "Spread_NearBuy_NextSell" -> {"Near", "Buy", "Next", "Sell"}
      [] k = "Spread_NearBuy_FarSell"  -> {"Near", "Buy", "Far", "Sell"}
      [] k = "Spread_NextBuy_FarSell"  -> {"Next", "Buy", "Far", "Sell"}
      [] k = "Spread_NearSell_NextBuy" -> {"Near", "Sell", "Next", "Buy"}
      [] k = "Spread_NearSell_FarBuy"  -> {"Near", "Sell", "Far", "Buy"}
      [] k = "Spread_NextSell_FarBuy"  -> {"Next", "Sell", "Far", "Buy"}

abs_spreads_swapped(near, nxt, far) ==
    [Spread_NearBuy_NextSell |-> diff(Get(near, "bidP"), Get(nxt, "askP")),
     Spread_NearBuy_FarSell  |-> diff(Get(far, "bidP"), Get(near, "askP")),
     Spread_NextBuy_FarSell  |-> diff(Get(far, "bidP"), Get(nxt, "askP")),
     Spread_NearSell_NextBuy |-> diff(Get(near, "bidP"), Get(nxt, "askP")),
     Spread_NearSell_FarBuy  |-> diff(Get(near, "bidP"), Get(far, "askP")),
     Spread_NextSell_FarBuy  |-> diff(Get(nxt, "bidP"), Get(far, "askP"))]

\* abs_spreads of f2fspread.py, f2fspread_main.py, f2fspread_main1.py, f2fspread_main2.py
abs_spreads(near, nxt, far) ==
    [Spread_NearBuy_NextSell |-> diff(Get(nxt, "bidP"), Get(near, "askP")),
     Spread_NearBuy_FarSell  |-> diff(Get(far, "bidP"), Get(near, "askP")),
     Spread_NextBuy_FarSell  |-> diff(Get(far, "bidP"), Get(nxt, "askP")),
     Spread_NearSell_NextBuy |-> diff(Get(near, "bidP"), Get(nxt, "askP")),
     Spread_NearSell_FarBuy  |-> diff(Get(near, "bidP"), Get(far, "askP")),
     Spread_NextSell_FarBuy  |-> diff(Get(nxt, "bidP"), Get(far, "askP"))]

\* the six spreads of f2fspread1.py and f2fspread5.py
spreads_1(near, nxt, far) ==
    [Spread_NearBuy_NextSell |-> diff(Get(nxt, "bidP"), Get(near, "askP")),
     Spread_NearBuy_FarSell  |-> diff(Get(far, "bidP"), Get(near, "askP")),
     Spread_NextBuy_FarSell  |-> diff(Get(far, "bidP"), Get(nxt, "askP")),
     Spread_NextBuy_NearSell |-> diff(Get(near, "bidP"), Get(nxt, "askP")),
     Spread_FarBuy_NearSell  |-> diff(Get(near, "bidP"), Get(far, "askP")),
     Spread_FarBuy_NextSell  |-> diff(Get(nxt, "bidP"), Get(far, "askP"))]

\* {**d, **{prefix + k + suffix: pd[k] for k in d}}
Merge(d, prefix, suffix, pd) ==
    [k \in DOMAIN d \cup {prefix \o j \o suffix : j \in DOMAIN d} |->
        IF k \in DOMAIN d THEN d[k]
        ELSE pd[CHOOSE j \in DOMAIN d : k = prefix \o j \o suffix]]

near_ltp_nofallback(near) ==
    LET l == safe_float(Get(near, "ltp")) IN IF l.t = "float" THEN l ELSE F(0)

\* f2fspread.py: near_ltp, 1 when the last price is None or zero
near_ltp_of(near) ==
    LET l == safe_float(Get(near, "ltp"))
    IN  IF ~Truthy(l) \/ (l.t = "float" /\ l.v = 0) THEN F(Unit) ELSE l

\* f2fspread.py: pct(a, b)
pct(a, b, nl) ==
    LET d == diff(a, b) IN IF d # None THEN pct_value(d, nl) ELSE None

\* f2fspread.py: the operands of pct are chosen by substrings of the key
pct_spreads(near, nxt, far, nl, k) ==
    IF "Near" \in KeyTokens(k)
    THEN pct(IF "Next" \in KeyTokens(k) THEN Get(nxt, "bidP") ELSE Get(far, "bidP"),
             IF "Buy" \in KeyTokens(k) THEN Get(near, "askP") ELSE Get(near, "bidP"),
             nl)
    ELSE pct(Get(far, "bidP"), Get(nxt, "askP"), nl)

compute_spreads(near, nxt, far) ==
    LET nl == near_ltp_of(near)
        d == abs_spreads(near, nxt, far)
    IN  Merge(d, "", "_pct", [k \in DOMAIN d |-> pct_spreads(near, nxt, far, nl, k)])

\* f2fspread_main.py and f2fspread_main2.py: near_ltp = safe_float(...) or 1
near_ltp_main(near) ==
    LET l == safe_float(Get(near, "ltp")) IN IF Truthy(l) THEN l ELSE F(Unit)

\* f2fspread_main.py: pct(a)
pct_main(a, nl) == IF a = None THEN None ELSE pct_value(a, nl)

compute_spreads_main(near, nxt, far) ==
    LET nl == near_ltp_main(near)
        d == abs_spreads(near, nxt, far)
    IN  Merge(d, "", "_pct", [k \in DOMAIN d |-> pct_main(d[k], nl)])

\* f2fspread_main1.py: pct(v, 0) per absolute spread v
compute_spreads_main1(near, nxt, far) ==
    LET nl == near_ltp_main(near)
        d == abs_spreads(near, nxt, far)
    IN  Merge(d, "", "_pct", [k \in DOMAIN d |-> pct(d[k], F(0), nl)])

\* f2fspread_main2.py: pct(d)
pct_main2(d, nl) == IF d # None THEN pct_value(d, nl) ELSE None

compute_spreads_main2(near, nxt, far) ==
    LET nl == near_ltp_main(near)
        d == abs_spreads(near, nxt, far)
    IN  Merge(d, "", "_pct", [k \in DOMAIN d |-> pct_main2(d[k], nl)])

\* f2fspread1.py: no percentages
compute_spreads_1(near, nxt, far) == spreads_1(near, nxt, far)

\* f2fspread5.py: percent_spread(spread, base)
percent_spread(spread, base) ==
    IF spread # None /\ base # None /\ base.v # 0
    THEN pct_value(spread, base) ELSE None

compute_spreads_5(near, nxt, far) ==
    LET d == spreads_1(near, nxt, far)
        near_bid == Get(near, "bidP")
    IN  Merge(d, "Percent_", "", [k \in DOMAIN d |-> percent_spread(d[k], near_bid)])

-----------------------------------------------------------------------------
(* SpecSpread: compute_spreads applied to every combination of quotes *)

PriceVals == {None} \cup {Price(p) : p \in 0..MaxPrice}
LtpVals == {None} \cup {Price(p) : p \in 0..MaxLtp}

\* a quote is the empty dict (an absent contract) or a record of the cache
NearQuotes ==
    {EmptyDict} \cup [bidP : PriceVals, askP : PriceVals, ltp : LtpVals]
\* compute_spreads never reads the last price of the next and far contracts
OtherQuotes ==
    {EmptyDict} \cup [bidP : PriceVals, askP : PriceVals, ltp : {None}]

InitSpread ==
    /\ near_s \in NearQuotes
    /\ nxt_s \in OtherQuotes
    /\ far_s \in OtherQuotes
    /\ ran = ""
    /\ spreads = EmptyDict
    /\ near_ltp = None
    /\ IdleCache /\ IdleCsv /\ IdleLock /\ IdleMore

Compute ==
    /\ ran = ""
    /\ ran' = "f2fspread"
    /\ spreads' = compute_spreads(near_s, nxt_s, far_s)
    /\ near_ltp' = near_ltp_of(near_s)
    /\ UNCHANGED <<near_s, nxt_s, far_s, cacheVars, csvVars, lockVars, moreVars>>

Compute_main ==
    /\ ran = ""
    /\ ran' = "f2fspread_main"
    /\ spreads' = compute_spreads_main(near_s, nxt_s, far_s)
    /\ near_ltp' = near_ltp_main(near_s)
    /\ UNCHANGED <<near_s, nxt_s, far_s, cacheVars, csvVars, lockVars, moreVars>>

Compute_main1 ==
    /\ ran = ""
    /\ ran' = "f2fspread_main1"
    /\ spreads' = compute_spreads_main1(near_s, nxt_s, far_s)
    /\ near_ltp' = near_ltp_main(near_s)
    /\ UNCHANGED <<near_s, nxt_s, far_s, cacheVars, csvVars, lockVars, moreVars>>

Compute_main2 ==
    /\ ran = ""
    /\ ran' = "f2fspread_main2"
    /\ spreads' = compute_spreads_main2(near_s, nxt_s, far_s)
    /\ near_ltp' = near_ltp_main(near_s)
    /\ UNCHANGED <<near_s, nxt_s, far_s, cacheVars, csvVars, lockVars, moreVars>>

Compute_1 ==
    /\ ran = ""
    /\ ran' = "f2fspread1"
    /\ spreads' = compute_spreads_1(near_s, nxt_s, far_s)
    /\ near_ltp' = None
    /\ UNCHANGED <<near_s, nxt_s, far_s, cacheVars, csvVars, lockVars, moreVars>>

Compute_5 ==
    /\ ran = ""
    /\ ran' = "f2fspread5"
    /\ spreads' = compute_spreads_5(near_s, nxt_s, far_s)
    /\ near_ltp' = Get(near_s, "bidP")
    /\ UNCHANGED <<near_s, nxt_s, far_s, cacheVars, csvVars, lockVars, moreVars>>

NextSpread ==
    \/ Compute
    \/ Compute_main
    \/ Compute_main1
    \/ Compute_main2
    \/ Compute_1
    \/ Compute_5

SpecSpread == InitSpread /\ [][NextSpread]_vars

-----------------------------------------------------------------------------
(* SpecCsv: the symbol list and the instrument keys derived from it *)

\* an empty cell of the CSV, which pandas reads as NaN
NaN == [t |-> "nan"]
Symbols == {Str("A"), Str("B")}

\* Series.dropna(), Series.unique(): first occurrences, in order
dropna(col) == LET NotNa(x) == x # NaN IN SelectSeq(col, NotNa)

RECURSIVE unique(_)
unique(col) ==
    IF col = <<>> THEN <<>>
    ELSE LET init == unique(SubSeq(col, 1, Len(col) - 1))
             x == col[Len(col)]
         IN  IF x \in Range(init) THEN init ELSE Append(init, x)

\* list(dict.fromkeys(keys)): a dict keeps its keys in insertion order
RECURSIVE dict_fromkeys(_)
dict_fromkeys(keys) ==
    IF keys = <<>> THEN <<>>
    ELSE LET init == dict_fromkeys(SubSeq(keys, 1, Len(keys) - 1))
             x == keys[Len(keys)]
         IN  IF x \in Range(init) THEN init ELSE Append(init, x)

\* f2fspread.py: df["underlying_symbol"].dropna().unique().tolist(), and []
\* when the file is not found
load_underlyings(file) == IF file = NoFile THEN <<>> ELSE unique(dropna(file.col))

\* f2f.py: df['underlying_symbol'].tolist(), and [] on any error
load_stocks_from_csv(file) == IF file = NoFile THEN <<>> ELSE file.col

\* instruments.json: four futures, an option and the equity of A, one
\* future of B; the second catalogue lists the nearest future of A twice
Instrument(key, segment, type, underlying, expiry, tsymbol) ==
    [instrument_key |-> key, segment |-> segment, instrument_type |-> type,
     underlying_symbol |-> underlying, expiry |-> expiry, trading_symbol |-> tsymbol]
Catalogue ==
    << Instrument("A2", "NSE_FO", "FUT", Str("A"), 2, Str("A-F2")),
       Instrument("A1", "NSE_FO", "FUT", Str("A"), 1, Str("A-F1")),
       Instrument("AE", "NSE_EQ", "EQ", None, 0, Str("A")),
       Instrument("A4", "NSE_FO", "FUT", Str("A"), 4, Str("A-F4")),
       Instrument("AC", "NSE_FO", "CE", Str("A"), 1, Str("A-C1")),
       Instrument("A3", "NSE_FO", "FUT", Str("A"), 3, Str("A-F3")),
       Instrument("B1", "NSE_FO", "FUT", Str("B"), 1, Str("B-F1")) >>
Catalogues == {Catalogue, Append(Catalogue, Catalogue[2])}

unsorted(l) == l

\* list.sort(key=expiry): stable, ascending
RECURSIVE sort_by_expiry(_)
sort_by_expiry(futures) ==
    IF futures = <<>> THEN <<>>
    ELSE LET init == sort_by_expiry(SubSeq(futures, 1, Len(futures) - 1))
             x == futures[Len(futures)]
             n == Cardinality({i \in 1..Len(init) : init[i].expiry <= x.expiry})
         IN  SubSeq(init, 1, n) \o <<x>> \o SubSeq(init, n + 1, Len(init))

\* f2fspread.py: the three nearest futures of the symbol
get_instrument_keys_for_symbol(symbol, instruments) ==
    LET IsFut(i) == /\ i.segment = "NSE_FO"
                    /\ i.instrument_type = "FUT"
                    /\ i.underlying_symbol = symbol
        futures == sort_by_expiry(SelectSeq(instruments, IsFut))
    IN  SubSeq(futures, 1, IF Len(futures) < 3 THEN Len(futures) ELSE 3)

\* f2f.py: the equity key (the last match, None without one) and all the
\* futures of the symbol
get_instrument_keys(symbol, instrument_data) ==
    LET IsEq(i) == i.segment = "NSE_EQ" /\ i.trading_symbol = symbol
        IsFut(i) == /\ i.segment # "NSE_EQ" \/ i.trading_symbol # symbol
                    /\ i.segment = "NSE_FO"
                    /\ i.underlying_symbol = symbol
                    /\ i.instrument_type = "FUT"
        eq == SelectSeq(instrument_data, IsEq)
    IN  [equity_key |-> IF eq = <<>> THEN None ELSE Str(eq[Len(eq)].instrument_key),
         futures |-> sort_by_expiry(SelectSeq(instrument_data, IsFut))]

KeysOf(futures) == [i \in 1..Len(futures) |-> futures[i].instrument_key]

\* f2fspread.py: the keys of every underlying, appended in order, then
\* list(dict.fromkeys(subscribe_keys))
RECURSIVE gather_keys(_, _)
gather_keys(syms, instruments) ==
    IF syms = <<>> THEN <<>>
    ELSE KeysOf(get_instrument_keys_for_symbol(Head(syms), instruments))
         \o gather_keys(Tail(syms), instruments)

build_subscribe_keys(syms, instruments) ==
    dict_fromkeys(gather_keys(syms, instruments))

\* f2f.py main, step 1: the equity key when there is one, then the futures
RECURSIVE all_instrument_keys(_, _)
all_instrument_keys(stocks_list, instrument_data) ==
    IF stocks_list = <<>> THEN <<>>
    ELSE LET r == get_instrument_keys(Head(stocks_list), instrument_data)
         IN  (IF Truthy(r.equity_key) THEN <<r.equity_key.s>> ELSE <<>>)
             \o KeysOf(r.futures)
             \o all_instrument_keys(Tail(stocks_list), instrument_data)

\* the CSV files: up to MaxRows rows of the column, or no file at all
RECURSIVE Cols(_)
Cols(n) ==
    IF n = 0 THEN {<<>>}
    ELSE LET shorter == Cols(n - 1)
         IN  shorter \cup {Append(c, x) : c \in shorter, x \in Symbols \cup {NaN}}
CsvFiles == {NoFile} \cup {[t |-> "file", col |-> c] : c \in Cols(MaxRows)}

InitCsv ==
    /\ csv_prog \in {"f2fspread", "f2f"}
    /\ csv_pc = "start"
    /\ csv_file \in CsvFiles
    /\ instrument_data_list \in Catalogues
    /\ underlyings = <<>>
    /\ instrument_keys = <<>>
    /\ IdleCache /\ IdleSpread /\ IdleLock /\ IdleMore

LoadUnderlyings ==
    /\ csv_prog = "f2fspread" /\ csv_pc = "start"
    /\ underlyings' = load_underlyings(csv_file)
    /\ csv_pc' = "loaded"
    /\ UNCHANGED <<csv_prog, csv_file, instrument_data_list, instrument_keys,
                   cacheVars, spreadVars, lockVars, moreVars>>

BuildSubscribeKeys ==
    /\ csv_prog = "f2fspread" /\ csv_pc = "loaded"
    /\ instrument_keys' = build_subscribe_keys(underlyings, instrument_data_list)
    /\ csv_pc' = "keyed"
    /\ UNCHANGED <<csv_prog, csv_file, instrument_data_list, underlyings,
                   cacheVars, spreadVars, lockVars, moreVars>>

\* f2f.py main: the symbols are loaded; an empty list ends the run
LoadStocks_f2f ==
    /\ csv_prog = "f2f" /\ csv_pc = "start"
    /\ underlyings' = load_stocks_from_csv(csv_file)
    /\ csv_pc' = IF underlyings' = <<>> THEN "exit" ELSE "loaded"
    /\ UNCHANGED <<csv_prog, csv_file, instrument_data_list, instrument_keys,
                   cacheVars, spreadVars, lockVars, moreVars>>

GatherKeys_f2f ==
    /\ csv_prog = "f2f" /\ csv_pc = "loaded"
    /\ instrument_keys' = all_instrument_keys(underlyings, instrument_data_list)
    /\ csv_pc' = "keyed"
    /\ UNCHANGED <<csv_prog, csv_file, instrument_data_list, underlyings,
                   cacheVars, spreadVars, lockVars, moreVars>>

NextCsv ==
    \/ LoadUnderlyings
    \/ BuildSubscribeKeys
    \/ LoadStocks_f2f
    \/ GatherKeys_f2f

SpecCsv == InitCsv /\ [][NextCsv]_vars

-----------------------------------------------------------------------------
(* SpecLock: the threads that touch market_state, and market_state_lock *)

\* "main" runs the startup poll; "stream" runs on_message for every frame;
\* "ui" runs the refresh tick; "snap" is the _snapper of f2fspread_main.py
LiveQuote == Entry(Price(1), Price(1), Price(1))

\* an access to market_state by thread th, and whether th holds the lock
Access(th, site, kind) == [by |-> th, site |-> site, kind |-> kind, held |-> lock = th]

InitLock ==
    /\ lk_prog \in {"f2fspread_main", "f2fspread_main2"}
    /\ lock = "free"
    /\ pc = [th \in Threads |-> IF th = "main" THEN "poll" ELSE "wait"]
    /\ todo = <<>>
    /\ shared = EmptyDict
    /\ access = NoAccess
    /\ seen_len = 0
    /\ IdleCache /\ IdleSpread /\ IdleCsv /\ IdleMore

Goto(th, loc) == pc' = [pc EXCEPT ![th] = loc]
LockIdle == UNCHANGED <<cacheVars, spreadVars, csvVars, moreVars>>

\* with market_state_lock: entered when the lock is free
Acquire(th, to) ==
    /\ lock = "free"
    /\ lock' = th /\ Goto(th, to)
    /\ UNCHANGED <<lk_prog, todo, shared, access, seen_len>> /\ LockIdle

Release(th, to) ==
    /\ lock' = "free" /\ Goto(th, to)
    /\ UNCHANGED <<lk_prog, todo, shared, access, seen_len>> /\ LockIdle

\* market_state[ik] = {...} for the next key of the loop
WriteNext(th, site) ==
    /\ \E e \in {NullEntry, LiveQuote} : shared' = Put(shared, Head(todo), e)
    /\ todo' = Tail(todo)
    /\ access' = Access(th, site, "write")
    /\ UNCHANGED <<lk_prog, lock, seen_len>> /\ LockIdle

\* len(market_state)
ReadLen(th, site) ==
    /\ seen_len' = Cardinality(DOMAIN shared)
    /\ access' = Access(th, site, "len")
    /\ UNCHANGED <<lk_prog, lock, todo, shared>> /\ LockIdle

\* a read of the mapping: .get(ik, default), json.dumps, dict(market_state)
ReadAll(th, site) ==
    /\ access' = Access(th, site, "read")
    /\ UNCHANGED <<lk_prog, lock, todo, shared, seen_len>> /\ LockIdle

KeyLists == {<<"K1">>, <<"K2">>, <<"K1", "K2">>}

\* initial_rest_poll: a failed request writes nothing; the data of a
\* successful one is written inside one 'with market_state_lock'
PollRequest ==
    /\ pc["main"] = "poll"
    /\ \E data \in KeyLists \cup {<<>>}, ok \in BOOLEAN :
          /\ todo' = IF ok THEN data ELSE <<>>
          /\ Goto("main", IF ok THEN "poll_acquire" ELSE "poll_end")
    /\ UNCHANGED <<lk_prog, lock, shared, access, seen_len>> /\ LockIdle

PollAcquire == pc["main"] = "poll_acquire" /\ Acquire("main", "poll_locked")

PollWrite ==
    /\ pc["main"] = "poll_locked" /\ todo # <<>>
    /\ WriteNext("main", "initial_rest_poll")
    /\ UNCHANGED pc

PollRelease == pc["main"] = "poll_locked" /\ todo = <<>> /\ Release("main", "poll_end")

\* f2fspread_main2.py prints len(market_state) after the loop; then the
\* streamer, the refresh tick and the _snapper are started
PollEnd ==
    /\ pc["main"] = "poll_end"
    /\ IF lk_prog = "f2fspread_main2"
       THEN ReadLen("main", "initial_rest_poll")
       ELSE UNCHANGED <<lk_prog, lock, todo, shared, access, seen_len>> /\ LockIdle
    /\ pc' = [th \in Threads |->
                 IF th = "main" THEN "done"
                 ELSE IF th = "snap" /\ lk_prog # "f2fspread_main" THEN "off"
                 ELSE "idle"]

\* on_message: a live feed that quotes some keys.  f2fspread_main2.py takes
\* the lock once around the loop, f2fspread_main.py once for every key.
Receive ==
    /\ pc["stream"] = "idle"
    /\ \E feeds \in KeyLists : todo' = feeds
    /\ Goto("stream", "msg")
    /\ UNCHANGED <<lk_prog, lock, shared, access, seen_len>> /\ LockIdle

MsgAcquire == pc["stream"] = "msg" /\ Acquire("stream", "msg_locked")

MsgWrite ==
    /\ pc["stream"] = "msg_locked" /\ todo # <<>>
    /\ WriteNext("stream", "on_message")
    /\ Goto("stream", IF lk_prog = "f2fspread_main" THEN "msg_written" ELSE "msg_locked")

MsgRelease ==
    \/ /\ lk_prog = "f2fspread_main" /\ pc["stream"] = "msg_written"
       /\ Release("stream", IF todo = <<>> THEN "idle" ELSE "msg")
    \/ /\ lk_prog = "f2fspread_main2" /\ pc["stream"] = "msg_locked" /\ todo = <<>>
       /\ Release("stream", "idle")

\* update_table: f2fspread_main2.py, build_df prints len(market_state)
Tick ==
    /\ pc["ui"] = "idle"
    /\ IF lk_prog = "f2fspread_main2"
       THEN ReadLen("ui", "build_df") /\ Goto("ui", "get_state")
       ELSE \E readable \in BOOLEAN :
               /\ Goto("ui", IF readable THEN "idle" ELSE "get_state")
               /\ UNCHANGED <<lk_prog, lock, todo, shared, access, seen_len>> /\ LockIdle

\* get_state of f2fspread_main2.py; in f2fspread_main.py the fall-back of
\* load_state_from_file, taken when the snapshot file cannot be read
GetAcquire == pc["ui"] = "get_state" /\ Acquire("ui", "get_state_locked")

GetRead ==
    /\ pc["ui"] = "get_state_locked"
    /\ ReadAll("ui", IF lk_prog = "f2fspread_main" THEN "load_state_from_file" ELSE "get_state")
    /\ Goto("ui", "get_state_read")

GetRelease ==
    /\ pc["ui"] = "get_state_read"
    /\ Release("ui", IF lk_prog = "f2fspread_main2" THEN "status" ELSE "idle")

\* update_table of f2fspread_main2.py: the status line prints len(market_state)
Status ==
    /\ pc["ui"] = "status" /\ lk_prog = "f2fspread_main2"
    /\ ReadLen("ui", "update_table")
    /\ Goto("ui", "idle")

\* snapshot_state_to_file: json.dumps(market_state) inside the lock
SnapAcquire == pc["snap"] = "idle" /\ Acquire("snap", "snap_locked")

SnapDump ==
    /\ pc["snap"] = "snap_locked"
    /\ ReadAll("snap", "snapshot_state_to_file")
    /\ Goto("snap", "snap_dumped")

SnapRelease == pc["snap"] = "snap_dumped" /\ Release("snap", "idle")

NextLock ==
    \/ PollRequest
    \/ PollAcquire
    \/ PollWrite
    \/ PollRelease
    \/ PollEnd
    \/ Receive
    \/ MsgAcquire
    \/ MsgWrite
    \/ MsgRelease
    \/ Tick
    \/ GetAcquire
    \/ GetRead
    \/ GetRelease
    \/ Status
    \/ SnapAcquire
    \/ SnapDump
    \/ SnapRelease

SpecLock == InitLock /\ [][NextLock]_vars

-----------------------------------------------------------------------------
(* SpecFut: get_instrument_keys_for_symbol on any list of instruments *)

\* the records instruments.json may hold: futures of A, two of them with the
\* same expiry, an option and the equity of A, a future of B
Pool ==
    { Instrument("A1", "NSE_FO", "FUT", Str("A"), 1, Str("A-F1")),
      Instrument("A2", "NSE_FO", "FUT", Str("A"), 2, Str("A-F2")),
      Instrument("A2b", "NSE_FO", "FUT", Str("A"), 2, Str("A-F2b")),
      Instrument("A3", "NSE_FO", "FUT", Str("A"), 3, Str("A-F3")),
      Instrument("AC", "NSE_FO", "CE", Str("A"), 1, Str("A-C1")),
      Instrument("AE", "NSE_EQ", "EQ", None, 0, Str("A")),
      Instrument("B1", "NSE_FO", "FUT", Str("B"), 1, Str("B-F1")) }
InstrumentLists == UNION {[1..n -> Pool] : n \in 0..MaxInstruments}

InitFut ==
    /\ fut_pc = "call"
    /\ fut_symbol \in {Str("A"), Str("B")}
    /\ fut_instruments \in InstrumentLists
    /\ futs = <<>>
    /\ IdleFutOthers

\* futs = get_instrument_keys_for_symbol(u, instrument_data_list)
SelectFutures ==
    /\ fut_pc = "call"
    /\ futs' = get_instrument_keys_for_symbol(fut_symbol, fut_instruments)
    /\ fut_pc' = "done"
    /\ UNCHANGED <<fut_symbol, fut_instruments>> /\ UNCHANGED futOthers

NextFut == SelectFutures

SpecFut == InitFut /\ [][NextFut]_vars

-----------------------------------------------------------------------------
(* SpecTear: f2fspread.py, writers and a reader of one entry, step by step *)

\* "main" runs the startup poll, then starts "stream" (on_message for every
\* frame) and "ui" (the refresh tick, which calls get_state)
TearThreads == {"main", "stream", "ui"}

\* the updates a response or a frame carries: for some of the keys, in
\* order, the values extracted from it
TearQuotes == {NullEntry} \cup {Entry(Price(p), Price(p), Price(p)) : p \in 1..MaxQuote}
TearUpdates ==
    {<<>>} \cup {<<[k |-> k1, q |-> q1]>> : k1 \in Keys, q1 \in TearQuotes}
    \cup {<<[k |-> "K1", q |-> q1], [k |-> "K2", q |-> q2]>> : q1 \in TearQuotes, q2 \in TearQuotes}

assign_bid_only(ms, ik, e) ==
    [x \in DOMAIN ms \cup {ik} |->
        IF x # ik THEN ms[x]
        ELSE IF ik \in DOMAIN ms THEN [ms[ik] EXCEPT !.bidP = e.bidP] ELSE e]

\* market_state[ik] = {"bidP": bid, "askP": ask, "ltp": ltp, ...}: the entry
\* is replaced by a new dict in one assignment
assign(ms, ik, e) == [x \in DOMAIN ms \cup {ik} |-> IF x = ik THEN e ELSE ms[x]]

InitTear ==
    /\ lock_t = "free"
    /\ pc_t = [th \in TearThreads |-> IF th = "main" THEN "poll" ELSE "wait"]
    /\ ms_t = EmptyDict
    /\ work_t = <<>>
    /\ get_ik = "" /\ s_t = EmptyDict /\ got_t = EmptyDict
    /\ issued = [k \in Keys |-> {}]
    /\ last_t = EmptyDict
    /\ IdleTearOthers

TGoto(th, loc) == pc_t' = [pc_t EXCEPT ![th] = loc]
Issue(w) == issued' = [k \in Keys |-> issued[k] \cup {w[i].q : i \in {j \in DOMAIN w : w[j].k = k}}]

\* initial_rest_poll, one batch: the request and the extraction of the values
T_PollRequest ==
    /\ pc_t["main"] = "poll"
    /\ \E data \in TearUpdates, ok \in BOOLEAN :
          /\ work_t' = IF ok THEN data ELSE <<>>
          /\ Issue(IF ok THEN data ELSE <<>>)
          /\ TGoto("main", IF ok THEN "poll_acquire" ELSE "poll_end")
    /\ UNCHANGED <<lock_t, ms_t, get_ik, s_t, got_t, last_t>> /\ UNCHANGED tearOthers

T_PollAcquire ==
    /\ pc_t["main"] = "poll_acquire" /\ lock_t = "free"
    /\ lock_t' = "main" /\ TGoto("main", "poll_locked")
    /\ UNCHANGED <<ms_t, work_t, get_ik, s_t, got_t, issued, last_t>> /\ UNCHANGED tearOthers

\* the poll skips a quote whose bid, ask and ltp are all None
T_PollWrite ==
    /\ pc_t["main"] = "poll_locked" /\ work_t # <<>>
    /\ LET u == Head(work_t)
       IN  IF ~AllNull(u.q)
           THEN /\ ms_t' = assign(ms_t, u.k, u.q)
                /\ last_t' = Put(last_t, u.k, u.q)
           ELSE UNCHANGED <<ms_t, last_t>>
    /\ work_t' = Tail(work_t)
    /\ UNCHANGED <<lock_t, pc_t, get_ik, s_t, got_t, issued>> /\ UNCHANGED tearOthers

T_PollRelease ==
    /\ pc_t["main"] = "poll_locked" /\ work_t = <<>>
    /\ lock_t' = "free" /\ TGoto("main", "poll_end")
    /\ UNCHANGED <<ms_t, work_t, get_ik, s_t, got_t, issued, last_t>> /\ UNCHANGED tearOthers

\* start_sdk_streamer and app.run follow the poll
T_PollEnd ==
    /\ pc_t["main"] = "poll_end"
    /\ pc_t' = [th \in TearThreads |-> IF th = "main" THEN "done" ELSE "idle"]
    /\ UNCHANGED <<lock_t, ms_t, work_t, get_ik, s_t, got_t, issued, last_t>>
    /\ UNCHANGED tearOthers

\* on_message: the values of every feed are extracted outside the lock
T_Receive ==
    /\ pc_t["stream"] = "idle"
    /\ \E feeds \in TearUpdates \ {<<>>} :
          /\ work_t' = feeds
          /\ Issue(feeds)
    /\ TGoto("stream", "msg")
    /\ UNCHANGED <<lock_t, ms_t, get_ik, s_t, got_t, last_t>> /\ UNCHANGED tearOthers

T_MsgAcquire ==
    /\ pc_t["stream"] = "msg" /\ lock_t = "free"
    /\ lock_t' = "stream" /\ TGoto("stream", "msg_locked")
    /\ UNCHANGED <<ms_t, work_t, get_ik, s_t, got_t, issued, last_t>> /\ UNCHANGED tearOthers

T_MsgWrite ==
    /\ pc_t["stream"] = "msg_locked"
    /\ LET u == Head(work_t)
       IN  /\ ms_t' = assign(ms_t, u.k, u.q)
           /\ last_t' = Put(last_t, u.k, u.q)
    /\ work_t' = Tail(work_t)
    /\ TGoto("stream", "msg_written")
    /\ UNCHANGED <<lock_t, get_ik, s_t, got_t, issued>> /\ UNCHANGED tearOthers

\* the lock is released after every entry
T_MsgRelease ==
    /\ pc_t["stream"] = "msg_written"
    /\ lock_t' = "free" /\ TGoto("stream", IF work_t = <<>> THEN "idle" ELSE "msg")
    /\ UNCHANGED <<ms_t, work_t, get_ik, s_t, got_t, issued, last_t>> /\ UNCHANGED tearOthers

\* build_df calls get_state(ik, tsym)
T_Tick ==
    /\ pc_t["ui"] = "idle"
    /\ \E ik \in Keys : get_ik' = ik
    /\ s_t' = EmptyDict /\ got_t' = EmptyDict
    /\ TGoto("ui", "get_state")
    /\ UNCHANGED <<lock_t, ms_t, work_t, issued, last_t>> /\ UNCHANGED tearOthers

T_GetAcquire ==
    /\ pc_t["ui"] = "get_state" /\ lock_t = "free"
    /\ lock_t' = "ui" /\ TGoto("ui", "get_state_locked")
    /\ UNCHANGED <<ms_t, work_t, get_ik, s_t, got_t, issued, last_t>> /\ UNCHANGED tearOthers

\* s = market_state.get(ik, {})
T_GetRef ==
    /\ pc_t["ui"] = "get_state_locked"
    /\ s_t' = IF get_ik \in DOMAIN ms_t THEN ms_t[get_ik] ELSE EmptyDict
    /\ TGoto("ui", "get_state_ref")
    /\ UNCHANGED <<lock_t, ms_t, work_t, get_ik, got_t, issued, last_t>> /\ UNCHANGED tearOthers

\* s.get("bidP"), s.get("askP"), s.get("ltp"), one after the other
T_GetField ==
    /\ pc_t["ui"] = "get_state_ref"
    /\ LET f == CASE "bidP" \notin DOMAIN got_t -> "bidP"
                  [] "askP" \notin DOMAIN got_t -> "askP"
                  [] OTHER -> "ltp"
       IN  /\ got_t' = [x \in DOMAIN got_t \cup {f} |-> IF x = f THEN Get(s_t, f) ELSE got_t[x]]
           /\ TGoto("ui", IF f = "ltp" THEN "get_state_read" ELSE "get_state_ref")
    /\ UNCHANGED <<lock_t, ms_t, work_t, get_ik, s_t, issued, last_t>> /\ UNCHANGED tearOthers

\* the record is returned and the lock released
T_GetRelease ==
    /\ pc_t["ui"] = "get_state_read"
    /\ lock_t' = "free" /\ TGoto("ui", "returned")
    /\ UNCHANGED <<ms_t, work_t, get_ik, s_t, got_t, issued, last_t>> /\ UNCHANGED tearOthers

\* the tick ends; the next one starts from idle
T_TickEnd ==
    /\ pc_t["ui"] = "returned"
    /\ TGoto("ui", "idle")
    /\ UNCHANGED <<lock_t, ms_t, work_t, get_ik, s_t, got_t, issued, last_t>>
    /\ UNCHANGED tearOthers

NextTear ==
    \/ T_PollRequest
    \/ T_PollAcquire
    \/ T_PollWrite
    \/ T_PollRelease
    \/ T_PollEnd
    \/ T_Receive
    \/ T_MsgAcquire
    \/ T_MsgWrite
    \/ T_MsgRelease
    \/ T_Tick
    \/ T_GetAcquire
    \/ T_GetRef
    \/ T_GetField
    \/ T_GetRelease
    \/ T_TickEnd

SpecTear == InitTear /\ [][NextTear]_vars

-----------------------------------------------------------------------------
(* SpecSnap: f2fspread_main.py, the snapshot file, step by step *)

\* the streamer, two callers of snapshot_state_to_file (_snapper of
\* f2fspread_main.py, _snap_loop of ws_runner.py) and a Dash callback that
\* calls load_state_from_file
SnapThreads == {"snap", "snap_loop"}
SnapAll == {"stream", "ui"} \cup SnapThreads

STATE_PATH == "state.json"
Paths == {STATE_PATH} \cup {".state." \o th : th \in SnapThreads}

\* a file just created, and a file that holds only the beginning of a text
EmptyFile == [t |-> "empty"]
Truncated(snap) == [t |-> "truncated", of |-> snap.text]

in_place(th) == STATE_PATH

\* tempfile.mkstemp(prefix=".state.", dir=d): a new file of a name nobody
\* else uses
mkstemp(th) == ".state." \o th

\* os.replace(tmp, STATE_PATH): the name dst now refers to the file src
\* referred to, in one step
os_replace(fs, src, dst) ==
    [p \in Paths |-> IF p = dst THEN fs[src] ELSE IF p = src THEN NoFile ELSE fs[p]]

\* json.dumps goes through the dict key by key: the keys dumped so far
dumps_step(ms, part) ==
    LET k == CHOOSE x \in Keys \ part.seen : \A y \in Keys \ part.seen : x = "K1" \/ y # "K1"
    IN  [seen |-> part.seen \cup {k},
         d |-> IF k \in DOMAIN ms THEN Put(part.d, k, ms[k]) ELSE part.d]

InitSnap ==
    /\ sn_lock = "free"
    /\ sn_pc = [th \in SnapAll |-> "idle"]
    /\ sn_ms = EmptyDict
    /\ sn_snap = [th \in SnapThreads |-> None]
    /\ sn_tmp = [th \in SnapThreads |-> ""]
    /\ sn_at = [th \in SnapThreads |-> EmptyDict]
    /\ sn_fs = [p \in Paths |-> NoFile]
    /\ sn_file_at = EmptyDict
    /\ sn_open = NoFile
    /\ sn_state = None
    /\ IdleSnapOthers

SGoto(th, loc) == sn_pc' = [sn_pc EXCEPT ![th] = loc]

\* snapshot_state_to_file returns: its locals are gone
Return(th) ==
    /\ SGoto(th, "idle")
    /\ sn_snap' = [sn_snap EXCEPT ![th] = None]
    /\ sn_tmp' = [sn_tmp EXCEPT ![th] = ""]
    /\ sn_at' = [sn_at EXCEPT ![th] = EmptyDict]

\* on_message: with market_state_lock
S_MsgAcquire ==
    /\ sn_pc["stream"] = "idle" /\ sn_lock = "free"
    /\ sn_lock' = "stream" /\ SGoto("stream", "msg_locked")
    /\ UNCHANGED <<sn_ms, sn_snap, sn_tmp, sn_at, sn_fs, sn_file_at, sn_open, sn_state>>
    /\ UNCHANGED snapOthers

\* market_state[ik] = {...}, and the lock is released; the instruments get
\* their first quotes one after the other
S_MsgWrite ==
    /\ sn_pc["stream"] = "msg_locked"
    /\ \E ik \in Keys :
          /\ ik \notin DOMAIN sn_ms
          /\ sn_ms' = Put(sn_ms, ik, LiveQuote)
    /\ sn_lock' = "free" /\ SGoto("stream", "idle")
    /\ UNCHANGED <<sn_snap, sn_tmp, sn_at, sn_fs, sn_file_at, sn_open, sn_state>>
    /\ UNCHANGED snapOthers

\* snapshot_state_to_file: with market_state_lock
S_SnapAcquire ==
    /\ \E th \in SnapThreads :
          /\ sn_pc[th] = "idle" /\ sn_lock = "free"
          /\ sn_lock' = th /\ SGoto(th, "dumps")
          /\ sn_snap' = [sn_snap EXCEPT ![th] = [seen |-> {}, d |-> EmptyDict]]
          /\ sn_at' = [sn_at EXCEPT ![th] = sn_ms]
    /\ UNCHANGED <<sn_ms, sn_tmp, sn_fs, sn_file_at, sn_open, sn_state>>
    /\ UNCHANGED snapOthers

\* snap = json.dumps(market_state): one key
S_SnapDumpKey ==
    /\ \E th \in SnapThreads :
          /\ sn_pc[th] = "dumps" /\ sn_snap[th].seen # Keys
          /\ sn_snap' = [sn_snap EXCEPT ![th] = dumps_step(sn_ms, sn_snap[th])]
    /\ UNCHANGED <<sn_lock, sn_pc, sn_ms, sn_tmp, sn_at, sn_fs, sn_file_at, sn_open, sn_state>>
    /\ UNCHANGED snapOthers

\* the text is complete and the lock is released
S_SnapRelease ==
    /\ \E th \in SnapThreads :
          /\ sn_pc[th] = "dumps" /\ sn_snap[th].seen = Keys
          /\ sn_snap' = [sn_snap EXCEPT ![th] = json_dumps(sn_snap[th].d)]
          /\ sn_lock' = "free" /\ SGoto(th, "mkstemp")
    /\ UNCHANGED <<sn_ms, sn_tmp, sn_at, sn_fs, sn_file_at, sn_open, sn_state>>
    /\ UNCHANGED snapOthers

\* os.makedirs(d, exist_ok=True); fd, tmp = tempfile.mkstemp(...)
S_Mkstemp ==
    /\ \E th \in SnapThreads :
          /\ sn_pc[th] = "mkstemp"
          /\ sn_tmp' = [sn_tmp EXCEPT ![th] = mkstemp(th)]
          /\ sn_fs' = [sn_fs EXCEPT ![mkstemp(th)] = EmptyFile]
          /\ SGoto(th, "write")
    /\ UNCHANGED <<sn_lock, sn_ms, sn_snap, sn_at, sn_file_at, sn_open, sn_state>>
    /\ UNCHANGED snapOthers

\* f.write(snap): the beginning of the text reaches the file
S_WriteSome ==
    /\ \E th \in SnapThreads :
          /\ sn_pc[th] = "write"
          /\ sn_fs' = [sn_fs EXCEPT ![sn_tmp[th]] = Truncated(sn_snap[th])]
          /\ SGoto(th, "write_rest")
    /\ UNCHANGED <<sn_lock, sn_ms, sn_snap, sn_tmp, sn_at, sn_file_at, sn_open, sn_state>>
    /\ UNCHANGED snapOthers

\* the rest of the text reaches the file, which is closed
S_WriteRest ==
    /\ \E th \in SnapThreads :
          /\ sn_pc[th] = "write_rest"
          /\ sn_fs' = [sn_fs EXCEPT ![sn_tmp[th]] = sn_snap[th]]
          /\ SGoto(th, "replace")
    /\ UNCHANGED <<sn_lock, sn_ms, sn_snap, sn_tmp, sn_at, sn_file_at, sn_open, sn_state>>
    /\ UNCHANGED snapOthers

\* os.replace(tmp, STATE_PATH), and the function returns
S_Replace ==
    /\ \E th \in SnapThreads :
          /\ sn_pc[th] = "replace"
          /\ sn_fs' = os_replace(sn_fs, sn_tmp[th], STATE_PATH)
          /\ sn_file_at' = sn_at[th]
          /\ Return(th)
    /\ UNCHANGED <<sn_lock, sn_ms, sn_open, sn_state>>
    /\ UNCHANGED snapOthers

\* except Exception: makedirs, mkstemp, write or replace raised; the error is
\* printed and the function returns. A temporary file it leaves behind keeps
\* a name no later call uses, and is dropped from sn_fs
S_SnapFails ==
    /\ \E th \in SnapThreads :
          /\ sn_pc[th] \in {"mkstemp", "write", "write_rest", "replace"}
          /\ sn_fs' = [p \in Paths |-> IF p = sn_tmp[th] /\ p # STATE_PATH THEN NoFile ELSE sn_fs[p]]
          /\ Return(th)
    /\ UNCHANGED <<sn_lock, sn_ms, sn_file_at, sn_open, sn_state>>
    /\ UNCHANGED snapOthers

\* the dict market_state itself, handed out without a copy
LiveDict == [t |-> "market_state"]
same_dict(ms) == LiveDict

\* dict(market_state): a new dict with the entries of market_state; no writer
\* changes an entry in place, each assigns a new one
dict_copy(ms) == ms

\* what a mapping a caller holds reads as now
contents(state) == IF state = LiveDict THEN sn_ms ELSE state

\* load_state_from_file: if os.path.exists(STATE_PATH)
L_Exists ==
    /\ sn_pc["ui"] = "idle"
    /\ SGoto("ui", IF sn_fs[STATE_PATH] # NoFile THEN "open" ELSE "fallback")
    /\ sn_open' = NoFile /\ sn_state' = None
    /\ UNCHANGED <<sn_lock, sn_ms, sn_snap, sn_tmp, sn_at, sn_fs, sn_file_at>>
    /\ UNCHANGED snapOthers

\* open(STATE_PATH, "r"): the reader holds the file the name refers to now
\* now, or open raises (OSError), which is caught
L_Open ==
    /\ sn_pc["ui"] = "open"
    /\ \/ sn_open' = sn_fs[STATE_PATH] /\ SGoto("ui", "load")
       \/ sn_open' = NoFile /\ SGoto("ui", "fallback")
    /\ UNCHANGED <<sn_lock, sn_ms, sn_snap, sn_tmp, sn_at, sn_fs, sn_file_at, sn_state>>
    /\ UNCHANGED snapOthers

\* return json.load(f); a text that is not complete raises, which is caught
L_Load ==
    /\ sn_pc["ui"] = "load"
    /\ IF sn_open.t = "file"
       THEN sn_state' = json_load(sn_open) /\ SGoto("ui", "idle")
       ELSE sn_state' = None /\ SGoto("ui", "fallback")
    /\ sn_open' = NoFile
    /\ UNCHANGED <<sn_lock, sn_ms, sn_snap, sn_tmp, sn_at, sn_fs, sn_file_at>>
    /\ UNCHANGED snapOthers

\* with market_state_lock: return dict(market_state)
L_Fallback ==
    /\ sn_pc["ui"] = "fallback" /\ sn_lock = "free"
    /\ sn_state' = dict_copy(sn_ms)
    /\ SGoto("ui", "idle")
    /\ UNCHANGED <<sn_lock, sn_ms, sn_snap, sn_tmp, sn_at, sn_fs, sn_file_at, sn_open>>
    /\ UNCHANGED snapOthers

NextSnap ==
    \/ S_MsgAcquire
    \/ S_MsgWrite
    \/ S_SnapAcquire
    \/ S_SnapDumpKey
    \/ S_SnapRelease
    \/ S_Mkstemp
    \/ S_WriteSome
    \/ S_WriteRest
    \/ S_Replace
    \/ S_SnapFails
    \/ L_Exists
    \/ L_Open
    \/ L_Load
    \/ L_Fallback

SpecSnap == InitSnap /\ [][NextSnap]_vars

-----------------------------------------------------------------------------
(* SpecPoll: the batch loops of initial_rest_poll and of f2f.py, one request
   at a time *)

\* the key lists: the keys are numbered; subscribe_keys holds every key once
\* (list(dict.fromkeys(...))), all_instrument_keys of f2f.py may repeat keys
KeyListsOf(p) ==
    IF p = "f2f"
    THEN UNION {[1..n -> 1..2] : n \in 0..MaxKeys}
    ELSE {[j \in 1..n |-> j] : n \in 0..MaxKeys}

\* keys_batch = subscribe_keys[i:i + batch_size], with i counted from 1
slice(lst, i, n) == SubSeq(lst, i, IF i + n - 1 < Len(lst) THEN i + n - 1 ELSE Len(lst))

\* the data of a successful response: a quote for every key of the batch
PollQuote == [buy |-> <<[price |-> Price(1)]>>, sell |-> <<[price |-> Price(1)]>>,
              last_price |-> Price(1), instrument_token |-> None]
BatchData(ks) == [j \in 1..Len(ks) |-> [ik_long |-> ks[j], quote |-> PollQuote]]
\* Exception stands for a payload that cannot be decoded or walked through
PollResponses(ks) ==
    {Ok(BatchData(ks)), HTTPError(401), HTTPError(500), Timeout, RequestException, Exception}

handle_retry_401(r, attempt) ==
    CASE r.kind = "ok" -> "break"
      [] r.kind \in {"HTTPError", "Timeout"} ->
            IF attempt < max_retries - 1 THEN "retry" ELSE "exhausted"
      [] OTHER -> "break"

handle_retry_always(r, attempt) ==
    CASE r.kind = "ok" -> "break"
      [] r.kind = "HTTPError" /\ r.status = 401 -> "raise"
      [] r.kind \in {"HTTPError", "Timeout"} -> "retry"
      [] OTHER -> "break"

\* f2fspread.py, what ends one pass of the retry loop: break after a success,
\* raise on a 401, another HTTP error or a timeout retried while
\* attempt < max_retries - 1, break on any other exception
handle(r, attempt) ==
    CASE r.kind = "ok" -> "break"
      [] r.kind = "HTTPError" /\ r.status = 401 -> "raise"
      [] r.kind \in {"HTTPError", "Timeout"} ->
            IF attempt < max_retries - 1 THEN "retry" ELSE "exhausted"
      [] OTHER -> "break"

\* the re-raised 401 escapes initial_rest_poll
uncaught(h) == "raised"

\* f2fspread.py, 'except Exception' around the retry loop: the re-raised 401
\* is caught and the batch loop left by break
caught(h) == "interrupted"

handle_main_abort(r) == IF r.kind = "ok" THEN "next" ELSE "raise"

\* f2fspread_main.py, f2fspread_main2.py: a status other than 200 is printed,
\* an exception is caught and printed; the loop goes on either way
handle_main(r) == "next"

\* fetch_ltp: the last_price of every item that has an instrument_token; {}
\* when the request or the decoding raises
fetch_ltp(r) ==
    IF r.kind = "ok" THEN [k \in {r.data[j].ik_long : j \in 1..Len(r.data)} |-> Price(1)]
    ELSE EmptyDict

\* dict.update
update(d, e) == [k \in DOMAIN d \cup DOMAIN e |-> IF k \in DOMAIN e THEN e[k] ELSE d[k]]

Wrote(old, new) == {k \in DOMAIN new : k \notin DOMAIN old \/ new[k] # old[k]}
Logged(r, new) ==
    Append(p_log, [i |-> p_i, attempt |-> p_attempt, keys |-> p_batch,
                   kind |-> r.kind, status |-> r.status, wrote |-> Wrote(p_ms, new)])

InitPoll ==
    /\ p_prog \in {"f2fspread", "f2fspread_main", "f2fspread_main2", "f2f"}
    /\ p_keys \in KeyListsOf(p_prog)
    /\ p_pc = "loop" /\ p_i = 1 /\ p_attempt = 0 /\ p_batch = <<>>
    /\ p_ms = EmptyDict /\ p_log = <<>> /\ p_end = "running"
    /\ IdlePollOthers

\* for i in range(0, len(subscribe_keys), batch_size): the next batch
P_Batch ==
    /\ p_pc = "loop" /\ p_i <= Len(p_keys)
    /\ p_batch' = slice(p_keys, p_i, batch_size)
    /\ p_attempt' = 0 /\ p_pc' = "request"
    /\ UNCHANGED <<p_prog, p_keys, p_i, p_ms, p_log, p_end>> /\ UNCHANGED pollOthers

\* the range is exhausted: the function returns
P_Return ==
    /\ p_pc = "loop" /\ p_i > Len(p_keys)
    /\ p_pc' = "done" /\ p_end' = "returned"
    /\ UNCHANGED <<p_prog, p_keys, p_i, p_attempt, p_batch, p_ms, p_log>>
    /\ UNCHANGED pollOthers

\* f2fspread.py: one pass of 'for attempt in range(max_retries)'
P_Request ==
    /\ p_pc = "request" /\ p_prog = "f2fspread"
    /\ \E r \in PollResponses(p_batch) :
          LET h == handle(r, p_attempt)
              new == IF r.kind = "ok" THEN rest_apply(p_ms, r.data) ELSE p_ms
          IN  /\ p_ms' = new
              /\ p_log' = Logged(r, new)
              /\ p_attempt' = IF h = "retry" THEN p_attempt + 1 ELSE p_attempt
              /\ p_i' = IF h \in {"break", "exhausted"} THEN p_i + batch_size ELSE p_i
              /\ p_pc' = CASE h = "retry" -> "request" [] h = "raise" -> "done"
                           [] OTHER -> "loop"
              /\ p_end' = IF h = "raise" THEN caught(h) ELSE p_end
    /\ UNCHANGED <<p_prog, p_keys, p_batch>> /\ UNCHANGED pollOthers

\* f2fspread_main.py: the request of one batch
P_Request_main ==
    /\ p_pc = "request" /\ p_prog = "f2fspread_main"
    /\ \E r \in PollResponses(p_batch) :
          LET h == handle_main(r)
              new == poll_batch_main(p_ms, r)
          IN  /\ p_ms' = new
              /\ p_log' = Logged(r, new)
              /\ p_i' = IF h = "next" THEN p_i + batch_size ELSE p_i
              /\ p_pc' = IF h = "next" THEN "loop" ELSE "done"
              /\ p_end' = IF h = "next" THEN p_end ELSE "raised"
    /\ UNCHANGED <<p_prog, p_keys, p_attempt, p_batch>> /\ UNCHANGED pollOthers

\* f2fspread_main2.py: the request of one batch
P_Request_main2 ==
    /\ p_pc = "request" /\ p_prog = "f2fspread_main2"
    /\ \E r \in PollResponses(p_batch) :
          LET h == handle_main(r)
              new == poll_batch_main2(p_ms, r)
          IN  /\ p_ms' = new
              /\ p_log' = Logged(r, new)
              /\ p_i' = IF h = "next" THEN p_i + batch_size ELSE p_i
              /\ p_pc' = IF h = "next" THEN "loop" ELSE "done"
              /\ p_end' = IF h = "next" THEN p_end ELSE "raised"
    /\ UNCHANGED <<p_prog, p_keys, p_attempt, p_batch>> /\ UNCHANGED pollOthers

\* f2f.py: ltp_data.update(fetch_ltp(chunk)); p_ms stands for ltp_data
P_Fetch_f2f ==
    /\ p_pc = "request" /\ p_prog = "f2f"
    /\ \E r \in {Ok(BatchData(p_batch)), HTTPError(500)} :
          LET new == update(p_ms, fetch_ltp(r))
          IN  /\ p_ms' = new
              /\ p_log' = Logged(r, new)
    /\ p_i' = p_i + batch_size /\ p_pc' = "loop"
    /\ UNCHANGED <<p_prog, p_keys, p_attempt, p_batch, p_end>> /\ UNCHANGED pollOthers

\* f2fspread.py, module startup: initial_rest_poll has come back, by the end
\* of the range or by the break of the outer handler; the margins and charges
\* are fetched (every request under a timeout and a handler of its own) and
\* start_sdk_streamer is called
P_StartStreamer ==
    /\ p_pc = "done" /\ p_prog = "f2fspread"
    /\ p_end \in {"returned", "interrupted"}
    /\ p_pc' = "streaming"
    /\ UNCHANGED <<p_prog, p_keys, p_i, p_attempt, p_batch, p_ms, p_log, p_end>>
    /\ UNCHANGED pollOthers

NextPoll ==
    \/ P_StartStreamer
    \/ P_Batch
    \/ P_Return
    \/ P_Request
    \/ P_Request_main
    \/ P_Request_main2
    \/ P_Fetch_f2f

SpecPoll == InitPoll /\ [][NextPoll]_vars

\* the poll runs in the main thread, every request has a timeout and every
\* sleep an end: a step that can be taken is taken
SpecPollLive == SpecPoll /\ WF_vars(NextPoll)

-----------------------------------------------------------------------------
(* SpecFrame: on_message, one frame after the other *)

\* the frames: a live feed quoting some of the keys, and a frame of another
\* type that carries feeds all the same
FramePayloads ==
    {pl \in Payloads : pl.bidAskQuote = <<>> \/ pl.bidAskQuote[1].bidP = pl.bidAskQuote[1].askP}
Frames ==
    {[type |-> ty, feeds |-> [k \in S |-> pl]] :
        ty \in {"live_feed", "market_info"}, S \in SUBSET Keys, pl \in FramePayloads}

InitFrame ==
    /\ fr_prog \in {"f2fspread", "f2fspread_main2"}
    /\ fr_ms = EmptyDict
    /\ fr_message = None
    /\ fr_calls = 0
    /\ IdleFrameOthers

\* f2fspread.py: on_message(message)
F_on_message ==
    /\ fr_prog = "f2fspread"
    /\ \E message \in Frames :
          /\ fr_message' = message
          /\ fr_ms' = on_message_state(fr_ms, message)
    /\ fr_calls' = 1 - fr_calls
    /\ UNCHANGED fr_prog /\ UNCHANGED frameOthers

\* f2fspread_main2.py: on_message(message)
F_on_message_main2 ==
    /\ fr_prog = "f2fspread_main2"
    /\ \E message \in Frames :
          /\ fr_message' = message
          /\ fr_ms' = on_message_state_main2(fr_ms, message)
    /\ fr_calls' = 1 - fr_calls
    /\ UNCHANGED fr_prog /\ UNCHANGED frameOthers

NextFrame ==
    \/ F_on_message
    \/ F_on_message_main2

SpecFrame == InitFrame /\ [][NextFrame]_vars

-----------------------------------------------------------------------------
(* SpecTick: f2fspread1.py, the streamer and the refresh tick *)

no_update == [t |-> "no_update"]
Table == [t |-> "records"]

\* the ids of the feeds: extract_symbol_from_key finds the symbol of the
\* first, and returns None for the second (no "25" in it)
TickKeys == {"NSE_FO|A25JUNFUT", "NSE_FO|INDEX"}
extract_symbol_from_key(ik) == IF ik = "NSE_FO|A25JUNFUT" THEN Str("A") ELSE None

\* the frames: another type, or a live feed with the ids of its feeds in order
TickFrames ==
    {[type |-> "market_info", feeds |-> <<>>]}
    \cup {[type |-> "live_feed", feeds |-> f] :
            f \in {<<>>} \cup {<<k>> : k \in TickKeys}
                  \cup {<<k1, k2>> : k1 \in TickKeys, k2 \in TickKeys}}

skip_either(symbols, ts) == symbols = {} \/ ts = 0

\* if not updated_symbols and trigger_ts == 0: return no_update, no_update
skip(symbols, ts) == symbols = {} /\ ts = 0

InitTick ==
    /\ tk_pc = [th \in {"stream", "ui"} |-> "idle"]
    /\ last_update_ts = 0
    /\ updated_symbols = {}
    /\ tk_written = {}
    /\ tk_feeds = <<>>
    /\ trigger_ts = 0
    /\ tk_ret = None
    /\ tk_begun = FALSE /\ tk_done = FALSE /\ tk_after = FALSE
    /\ IdleTickOthers

KGoto(th, loc) == tk_pc' = [tk_pc EXCEPT ![th] = loc]

\* on_message(message): a frame that is not a live feed returns at once
K_Receive ==
    /\ tk_pc["stream"] = "idle"
    /\ \E message \in TickFrames :
          /\ tk_feeds' = IF message.type = "live_feed" THEN message.feeds ELSE <<>>
          /\ KGoto("stream", IF message.type = "live_feed" THEN "feeds" ELSE "idle")
    /\ tk_begun' = TRUE
    /\ UNCHANGED <<last_update_ts, updated_symbols, tk_written, trigger_ts, tk_ret,
                   tk_done, tk_after>>
    /\ UNCHANGED tickOthers

\* market_state[ik] = {...}
K_Write ==
    /\ tk_pc["stream"] = "feeds" /\ tk_feeds # <<>>
    /\ tk_written' = tk_written \cup {Head(tk_feeds)}
    /\ KGoto("stream", "trigger")
    /\ UNCHANGED <<last_update_ts, updated_symbols, tk_feeds, trigger_ts, tk_ret,
                   tk_begun, tk_done, tk_after>>
    /\ UNCHANGED tickOthers

\* last_update_ts = time.time(): some time after the start of the program
K_Trigger ==
    /\ tk_pc["stream"] = "trigger"
    /\ last_update_ts' = 1
    /\ KGoto("stream", "symbol")
    /\ UNCHANGED <<updated_symbols, tk_written, tk_feeds, trigger_ts, tk_ret,
                   tk_begun, tk_done, tk_after>>
    /\ UNCHANGED tickOthers

\* sym = extract_symbol_from_key(ik); if sym: updated_symbols.add(sym); the
\* update of this id is processed
K_Symbol ==
    /\ tk_pc["stream"] = "symbol"
    /\ LET sym == extract_symbol_from_key(Head(tk_feeds))
       IN  updated_symbols' = IF Truthy(sym) THEN updated_symbols \cup {sym} ELSE updated_symbols
    /\ tk_feeds' = Tail(tk_feeds)
    /\ tk_done' = TRUE
    /\ KGoto("stream", "feeds")
    /\ UNCHANGED <<last_update_ts, tk_written, trigger_ts, tk_ret, tk_begun, tk_after>>
    /\ UNCHANGED tickOthers

\* the loop over feeds.items() is over
K_Return ==
    /\ tk_pc["stream"] = "feeds" /\ tk_feeds = <<>>
    /\ KGoto("stream", "idle")
    /\ UNCHANGED <<last_update_ts, updated_symbols, tk_written, tk_feeds, trigger_ts,
                   tk_ret, tk_begun, tk_done, tk_after>>
    /\ UNCHANGED tickOthers

\* the interval fires: update_table is called
U_Tick ==
    /\ tk_pc["ui"] \in {"idle", "returned"}
    /\ tk_after' = tk_done
    /\ tk_ret' = None /\ trigger_ts' = 0
    /\ KGoto("ui", "update_table")
    /\ UNCHANGED <<last_update_ts, updated_symbols, tk_written, tk_feeds, tk_begun, tk_done>>
    /\ UNCHANGED tickOthers

\* with last_update_lock: trigger_ts = last_update_ts
U_ReadTrigger ==
    /\ tk_pc["ui"] = "update_table"
    /\ trigger_ts' = last_update_ts
    /\ KGoto("ui", "check")
    /\ UNCHANGED <<last_update_ts, updated_symbols, tk_written, tk_feeds, tk_ret,
                   tk_begun, tk_done, tk_after>>
    /\ UNCHANGED tickOthers

\* with updated_symbols_lock: the test that skips the tick
U_Check ==
    /\ tk_pc["ui"] = "check"
    /\ IF skip(updated_symbols, trigger_ts)
       THEN tk_ret' = <<no_update, no_update>> /\ KGoto("ui", "returned")
       ELSE tk_ret' = None /\ KGoto("ui", "build_df")
    /\ UNCHANGED <<last_update_ts, updated_symbols, tk_written, tk_feeds, trigger_ts,
                   tk_begun, tk_done, tk_after>>
    /\ UNCHANGED tickOthers

\* df = build_df(...); return df.to_dict("records"), f"Last updated: {now}"
U_Build ==
    /\ tk_pc["ui"] = "build_df"
    /\ tk_ret' = <<Table, Str("Last updated")>>
    /\ KGoto("ui", "returned")
    /\ UNCHANGED <<last_update_ts, updated_symbols, tk_written, tk_feeds, trigger_ts,
                   tk_begun, tk_done, tk_after>>
    /\ UNCHANGED tickOthers

NextTick ==
    \/ K_Receive
    \/ K_Write
    \/ K_Trigger
    \/ K_Symbol
    \/ K_Return
    \/ U_Tick
    \/ U_ReadTrigger
    \/ U_Check
    \/ U_Build

SpecTick == InitTick /\ [][NextTick]_vars

-----------------------------------------------------------------------------
(* Properties of the market-state cache *)

Vals(e) == <<e.bidP, e.askP, e.ltp>>

\* the values history h holds for key k; all None when k was never updated
Latest(h, k) == IF k \in DOMAIN h THEN Vals(h[k].q) ELSE Vals(NullEntry)

\* C1 as stated: get_state(id) returns the bid, ask and last price of the
\* most recent update applied to id, in every program
C1_GetReturnsLatest ==
    op = "get_state" => ~raised /\ Vals(ret) = Latest(applied, ret_ik)

\* C1: get_state(id) returns the bid, ask and last price of the most recent
\* update applied to id when it reads market_state; in f2fspread_main.py it
\* reads the snapshot file when there is one, and then returns the values id
\* had when the last snapshot was written
C1_GetReturnsLatestOrSnapshot ==
    op = "get_state" =>
        /\ ~raised
        /\ loaded = "file" => prog = "f2fspread_main" /\ state_file # NoFile
        /\ Vals(ret) = Latest(IF loaded = "file" THEN snap_applied ELSE applied, ret_ik)

C1_Witness ==
    /\ op = "get_state" /\ prog = "f2fspread"
    /\ ret_ik \in DOMAIN applied
    /\ applied[ret_ik].by = "on_message"
    /\ ret.bidP # None /\ ret.askP # None /\ ret.ltp # None

\* C2 as stated: every update made by on_message or by initial_rest_poll is
\* in the cache afterwards, whatever its values
C2_EveryWriteReplaces ==
    \A k \in DOMAIN requested :
        k \in DOMAIN market_state /\ market_state[k] = requested[k].q

\* C2: every update made by on_message, and every update made by the
\* initial_rest_poll of f2fspread_main.py and f2fspread_main2.py, is in the
\* cache afterwards, whatever its values; the initial_rest_poll of
\* f2fspread.py skips a quote whose bid, ask and last price are all None and
\* leaves the entry of that key as it was
C2_WritesReplaceUnlessNullPoll ==
    \A k \in DOMAIN requested :
        IF prog = "f2fspread" /\ requested[k].by = "initial_rest_poll"
           /\ AllNull(requested[k].q)
        THEN IF k \in DOMAIN applied
             THEN k \in DOMAIN market_state /\ market_state[k] = applied[k].q
             ELSE k \notin DOMAIN market_state
        ELSE k \in DOMAIN market_state /\ market_state[k] = requested[k].q

C2_Witness ==
    /\ prog = "f2fspread"
    /\ \E k \in DOMAIN requested :
          /\ requested[k].by = "initial_rest_poll" /\ AllNull(requested[k].q)
          /\ k \notin DOMAIN market_state
    /\ \E k \in DOMAIN requested :
          /\ requested[k].by = "on_message" /\ AllNull(requested[k].q)
          /\ k \in DOMAIN market_state /\ AllNull(market_state[k])

\* C3: get_state(id) for an id that was never updated returns None for bid,
\* ask and last price, raises nothing, and creates no entry for id
C3_GetOfUnknownId ==
    (op = "get_state" /\ ret_ik \notin DOMAIN requested) =>
        /\ ~raised
        /\ Vals(ret) = <<None, None, None>>
        /\ ret_ik \notin DOMAIN market_state
        /\ DOMAIN market_state = DOMAIN applied

C3_Witness ==
    /\ op = "get_state" /\ prog \in {"f2fspread", "f2fspread_main2"}
    /\ ret_ik \notin DOMAIN requested
    /\ DOMAIN market_state # {}

-----------------------------------------------------------------------------
(* Properties of the symbol list and the key list *)

CsvColumn == IF csv_file = NoFile THEN <<>> ELSE csv_file.col
Count(q, x) == Cardinality({i \in 1..Len(q) : q[i] = x})
First(q, x) == CHOOSE i \in 1..Len(q) : q[i] = x /\ \A j \in 1..Len(q) : (q[j] = x) => (i <= j)

\* C9 as stated: the loaded list holds every symbol of the CSV exactly once,
\* in order of first occurrence, and the key list derived from it holds
\* every key exactly once
C9_EachSymbolAndKeyOnce ==
    /\ csv_pc \in {"loaded", "keyed", "exit"} =>
          /\ \A s \in Symbols : Count(underlyings, s) = IF s \in Range(CsvColumn) THEN 1 ELSE 0
          /\ \A i, j \in 1..Len(underlyings) :
                (i < j /\ underlyings[i] \in Symbols /\ underlyings[j] \in Symbols)
                    => First(CsvColumn, underlyings[i]) < First(CsvColumn, underlyings[j])
    /\ csv_pc = "keyed" =>
          \A k \in Range(instrument_keys) : Count(instrument_keys, k) = 1

-----------------------------------------------------------------------------
(* Properties of the lock discipline *)

\* C10 as stated: every read and every write of market_state, reads of its
\* size included, is made by a thread that holds market_state_lock
C10_EveryAccessHoldsLock == access.held

-----------------------------------------------------------------------------
(* Properties of the spread calculator *)

Slots == {"near", "nxt", "far"}
Quote(slot) == IF slot = "near" THEN near_s ELSE IF slot = "nxt" THEN nxt_s ELSE far_s
Directions == {d \in Slots \X Slots : d[1] # d[2]}

\* the result key of 'buy d[1] / sell d[2]' in the program that ran
SpreadKey(d) ==
    IF ran \in {"f2fspread1", "f2fspread5"}
    THEN CASE d = <<"near", "nxt">> -> "Spread_NearBuy_NextSell"
           [] d = <<"near", "far">> -> "Spread_NearBuy_FarSell"
           [] d = <<"nxt", "far">>  -> "Spread_NextBuy_FarSell"
           [] d = <<"nxt", "near">> -> "Spread_NextBuy_NearSell"
           [] d = <<"far", "near">> -> "Spread_FarBuy_NearSell"
           [] d = <<"far", "nxt">>  -> "Spread_FarBuy_NextSell"
    ELSE CASE d = <<"near", "nxt">> -> "Spread_NearBuy_NextSell"
           [] d = <<"near", "far">> -> "Spread_NearBuy_FarSell"
           [] d = <<"nxt", "far">>  -> "Spread_NextBuy_FarSell"
           [] d = <<"nxt", "near">> -> "Spread_NearSell_NextBuy"
           [] d = <<"far", "near">> -> "Spread_NearSell_FarBuy"
           [] d = <<"far", "nxt">>  -> "Spread_NextSell_FarBuy"
PctKey(d) ==
    IF ran = "f2fspread5" THEN "Percent_" \o SpreadKey(d) ELSE SpreadKey(d) \o "_pct"

\* the ask paid for the bought contract and the bid received for the sold one
BuyAsk(d) == Get(Quote(d[1]), "askP")
SellBid(d) == Get(Quote(d[2]), "bidP")
Present(d) == BuyAsk(d) # None /\ SellBid(d) # None
WithPct == {"f2fspread", "f2fspread_main", "f2fspread_main1", "f2fspread_main2", "f2fspread5"}

\* C4: a directional spread whose bid or ask is missing (a null value or an
\* absent contract's empty record) is null in the result, never a number.
C4_NullPropagation ==
    ran # "" =>
        \A d \in Directions : ~Present(d) => spreads[SpreadKey(d)] = None

\* an absent contract, a null value and a computed spread side by side
C4_Witness ==
    /\ ran = "f2fspread"
    /\ far_s = EmptyDict
    /\ Get(near_s, "bidP") = None
    /\ spreads["Spread_NearBuy_NextSell"] = F(Unit)
    /\ spreads["Spread_NearSell_NextBuy"] = None
    /\ spreads["Spread_NextBuy_FarSell"] = None

\* C5: with both operands present, the spread 'buy X / sell Y' equals the bid
\* of the sold contract Y minus the ask of the bought contract X.
C5_SpreadIsBidMinusAsk ==
    ran # "" =>
        \A d \in Directions :
            Present(d) => spreads[SpreadKey(d)] = F(SellBid(d).v - BuyAsk(d).v)

C5_Witness ==
    /\ ran = "f2fspread1"
    /\ \A d \in Directions : Present(d)
    /\ spreads["Spread_NearBuy_NextSell"] = F(Unit)
    /\ spreads["Spread_NextBuy_NearSell"] = F(-Unit)
    /\ spreads["Spread_FarBuy_NextSell"] = F(0)

AllPresent(a, b) ==
    /\ Get(Quote(a), "bidP") # None /\ Get(Quote(a), "askP") # None
    /\ Get(Quote(b), "bidP") # None /\ Get(Quote(b), "askP") # None

\* C6 as stated: Spread(buy A / sell B) = -Spread(buy B / sell A) whenever the
\* bids and asks of A and B are all present.
C6_SignSymmetry ==
    ran # "" =>
        \A d \in Directions :
            AllPresent(d[1], d[2]) =>
                spreads[SpreadKey(d)].v = -spreads[SpreadKey(<<d[2], d[1]>>)].v

\* C6 amended: the two opposite spreads sum to minus the two bid-ask widths,
\* Spread(buy A / sell B) + Spread(buy B / sell A)
\*     = (A.bid - A.ask) + (B.bid - B.ask),
\* so they are negatives of each other exactly when the widths sum to zero.
C6_OppositeSpreadsSum ==
    ran # "" =>
        \A d \in Directions :
            AllPresent(d[1], d[2]) =>
                LET a == Quote(d[1])
                    b == Quote(d[2])
                    sum == spreads[SpreadKey(d)].v + spreads[SpreadKey(<<d[2], d[1]>>)].v
                    widths == (a.bidP.v - a.askP.v) + (b.bidP.v - b.askP.v)
                IN  /\ sum = widths
                    /\ (spreads[SpreadKey(d)].v = -spreads[SpreadKey(<<d[2], d[1]>>)].v)
                            <=> (widths = 0)

\* both spreads of a pair computed, with a non-zero width
C6_Witness ==
    /\ ran = "f2fspread_main"
    /\ AllPresent("near", "nxt")
    /\ spreads["Spread_NearBuy_NextSell"] = F(-Unit)
    /\ spreads["Spread_NearSell_NextBuy"] = F(-Unit)

NearLast == Get(near_s, "ltp")

\* C7 as stated, to the two decimals the result is rounded to: the percentage
\* under a spread's name is 100 * that spread's absolute value / near last
\* price, when the near last price is present and non-zero (stated for
\* f2fspread.py and f2fspread_main.py, whose quotes carry a last price).
C7_PctOfSameSpread ==
    (ran \in {"f2fspread", "f2fspread_main"} /\ Truthy(NearLast)) =>
        \A d \in Directions :
            LET a == spreads[SpreadKey(d)]
                p == spreads[PctKey(d)]
            IN  a # None =>
                    /\ p # None
                    /\ LET h == p.v \div 100
                           e == 2 * h * NearLast.v - 2 * a.v * Unit
                       IN  e <= NearLast.v /\ -e <= NearLast.v

\* C8 as stated: with the near last price null or zero the divisor of every
\* percentage is 1, and no input makes the computation raise.
C8_DivisorOne ==
    ran \in WithPct =>
        /\ ~Truthy(NearLast) => near_ltp = F(Unit)
        /\ \A k \in DOMAIN spreads : spreads[k] # ZeroDivisionError

\* C8 amended: in f2fspread.py and f2fspread_main*.py a null or zero near last
\* price makes the divisor 1 (in f2fspread_main*.py the percentage is then
\* 100 * the absolute spread); in f2fspread5.py the divisor is the near bid and a null or zero
\* near bid makes every percentage null; no input makes the computation raise.
C8_DivisorGuard ==
    ran \in WithPct =>
        /\ (ran # "f2fspread5" /\ ~Truthy(NearLast)) =>
                /\ near_ltp = F(Unit)
                /\ ran # "f2fspread" =>
                        \A d \in Directions :
                            spreads[SpreadKey(d)] # None =>
                                spreads[PctKey(d)] = F(100 * spreads[SpreadKey(d)].v)
        /\ ran = "f2fspread5" =>
                /\ near_ltp = Get(near_s, "bidP")
                /\ ~Truthy(near_ltp) => \A d \in Directions : spreads[PctKey(d)] = None
        /\ \A k \in DOMAIN spreads : spreads[k] # ZeroDivisionError

\* a zero last price and a computed percentage
C8_Witness ==
    /\ ran = "f2fspread_main2"
    /\ NearLast = F(0)
    /\ spreads["Spread_NearBuy_NextSell"] = F(Unit)
    /\ spreads["Spread_NearBuy_NextSell_pct"] = F(100 * Unit)

-----------------------------------------------------------------------------
(* Properties of concurrent writers and readers *)

\* C11: the record get_state has read for an id is the complete record of
\* one update made for that id (all None when there was none), and while
\* get_state still holds the lock it is the update written last
C11_NoTearing ==
    pc_t["ui"] \in {"get_state_read", "returned"} =>
        /\ DOMAIN got_t = {"bidP", "askP", "ltp"}
        /\ got_t \in issued[get_ik] \cup {NullEntry}
        /\ pc_t["ui"] = "get_state_read" =>
              got_t = IF get_ik \in DOMAIN last_t THEN last_t[get_ik] ELSE NullEntry

\* two different updates were written to the id, and the streamer is ready
\* to write again, when get_state returns the later one
C11_Witness ==
    /\ pc_t["ui"] = "returned"
    /\ Cardinality(issued[get_ik]) >= 2
    /\ get_ik \in DOMAIN last_t /\ ~AllNull(got_t)
    /\ pc_t["stream"] = "msg"

-----------------------------------------------------------------------------
(* Properties of the choice of contracts *)

Matching(symbol, instruments) ==
    {j \in 1..Len(instruments) :
        /\ instruments[j].segment = "NSE_FO"
        /\ instruments[j].instrument_type = "FUT"
        /\ instruments[j].underlying_symbol = symbol}

\* C12: get_instrument_keys_for_symbol returns at most three contracts, all
\* of them NSE_FO futs of the symbol taken from the list, in
\* non-decreasing expiry order, the i-th being one of the i smallest, and
\* all the matches when there are fewer than three
C12_ThreeNearestFutures ==
    fut_pc = "done" =>
        LET m == Matching(fut_symbol, fut_instruments)
            n == Len(futs)
        IN  /\ n <= 3
            /\ n = IF Cardinality(m) < 3 THEN Cardinality(m) ELSE 3
            /\ \A i \in 1..n :
                  /\ Cardinality({k \in 1..n : futs[k] = futs[i]})
                       <= Cardinality({j \in m : fut_instruments[j] = futs[i]})
                  /\ Cardinality({j \in m : fut_instruments[j].expiry < futs[i].expiry}) < i
            /\ \A i \in 1..n, k \in 1..n : (i <= k) => (futs[i].expiry <= futs[k].expiry)

\* four futs of the symbol, listed out of expiry order and two of them
\* with the same expiry, of which three are returned
C12_Witness ==
    /\ fut_pc = "done" /\ Len(futs) = 3
    /\ Cardinality(Matching(fut_symbol, fut_instruments)) = 4
    /\ fut_instruments[1].expiry > fut_instruments[2].expiry
    /\ futs[2].expiry = futs[3].expiry

-----------------------------------------------------------------------------
(* Properties of the snapshot file *)

\* the text json.dumps returned is market_state as it was when the lock was taken
DumpIsInstant ==
    \A th \in SnapThreads :
        sn_pc[th] \in {"mkstemp", "write", "write_rest", "replace"} =>
            sn_snap[th] = json_dumps(sn_at[th])

\* the file at STATE_PATH is absent or is the complete text of one dump
StateFileComplete ==
    sn_fs[STATE_PATH] = NoFile \/ sn_fs[STATE_PATH] = json_dumps(sn_file_at)

\* what a reader has opened is a complete text
ReaderSeesComplete == sn_pc["ui"] = "load" => sn_open.t = "file"

\* the file at STATE_PATH changes only when a snapshot succeeds
OnlyReplaceChangesFile ==
    sn_fs'[STATE_PATH] # sn_fs[STATE_PATH] =>
        \E th \in SnapThreads :
            /\ sn_pc[th] = "replace" /\ sn_pc'[th] = "idle"
            /\ sn_fs'[STATE_PATH] = sn_snap[th]

\* C13: at every moment the file at STATE_PATH is absent or holds one complete
\* dump of market_state as it was at one instant, a reader never opens a
\* partly written file, and a snapshot that fails leaves the file as it was
C13_SnapshotIsAtomic ==
    /\ [](DumpIsInstant /\ StateFileComplete /\ ReaderSeesComplete)
    /\ [][OnlyReplaceChangesFile]_vars

\* a reader has opened the file while one snapshot caller is half-way through
\* writing its temporary file and market_state has moved on since the file
\* was put in place
C13_Witness ==
    /\ sn_pc["ui"] = "load"
    /\ \E th \in SnapThreads : sn_pc[th] = "write_rest"
    /\ json_load(sn_open) # sn_ms
    /\ sn_open.text # EmptyDict
    /\ sn_fs[STATE_PATH] # sn_open

-----------------------------------------------------------------------------
(* Properties of the batch loops *)

\* where the loop stands after the n-th request: the batch and attempt of the
\* request that follows it, or of the loop variables when none has followed
Following(n) ==
    IF n < Len(p_log) THEN [i |-> p_log[n + 1].i, attempt |-> p_log[n + 1].attempt]
    ELSE [i |-> p_i, attempt |-> p_attempt]
BatchStarts == {b \in 1..Len(p_keys) : (b - 1) % batch_size = 0}
KeySet(ks) == {ks[j] : j \in 1..Len(ks)}

C16_RetriesAreBounded ==
    p_prog = "f2fspread" =>
        /\ \A b \in BatchStarts : Cardinality({n \in 1..Len(p_log) : p_log[n].i = b}) <= max_retries
        /\ \A n \in 1..Len(p_log) :
              LET e == p_log[n]
              IN  /\ e.kind = "ok" =>
                        /\ e.wrote = KeySet(e.keys)
                        /\ Following(n).i = e.i + batch_size
                  /\ (e.kind = "Timeout" \/ (e.kind = "HTTPError" /\ e.status # 401)) =>
                        /\ e.wrote = {}
                        /\ IF e.attempt < max_retries - 1
                           THEN Following(n) = [i |-> e.i, attempt |-> e.attempt + 1]
                           ELSE Following(n).i = e.i + batch_size

\* the first batch failed three times, the second succeeded at its second
\* attempt, and the poll returned
C16_Witness ==
    /\ p_prog = "f2fspread" /\ p_end = "returned" /\ Len(p_log) = 5
    /\ p_log[1].kind = "HTTPError" /\ p_log[2].kind = "Timeout" /\ p_log[3].kind = "HTTPError"
    /\ p_log[4].kind = "Timeout" /\ p_log[5].kind = "ok"
    /\ p_log[3].i = 1 /\ p_log[4].i = 1 + batch_size
    /\ DOMAIN p_ms = KeySet(p_log[5].keys)

\* C17: in f2fspread.py a 401 is the last request of the poll: the batch is
\* not tried again, no later batch is requested, and what earlier batches
\* wrote is still there
C17_UnauthorizedAborts ==
    p_prog = "f2fspread" =>
        \A n \in 1..Len(p_log) :
            (p_log[n].kind = "HTTPError" /\ p_log[n].status = 401) =>
                /\ n = Len(p_log)
                /\ p_pc \in {"done", "streaming"} /\ p_end = "interrupted"
                /\ p_log[n].wrote = {}
                /\ \A m \in 1..(n - 1) :
                      \A k \in p_log[m].wrote : k \in DOMAIN p_ms /\ ~AllNull(p_ms[k])

\* the first batch was written, the second got a 401 at its second attempt
\* and a batch is left that was never requested
C17_Witness ==
    /\ p_prog = "f2fspread" /\ Len(p_log) = 3
    /\ p_log[1].kind = "ok" /\ p_log[2].kind = "Timeout"
    /\ p_log[3].kind = "HTTPError" /\ p_log[3].status = 401
    /\ p_log[3].i + batch_size <= Len(p_keys)
    /\ p_ms # EmptyDict

\* the batches requested, in order: the keys of every first attempt
RECURSIVE Batches(_)
Batches(log) ==
    IF log = <<>> THEN <<>>
    ELSE LET rest == Batches(SubSeq(log, 1, Len(log) - 1))
             e == log[Len(log)]
         IN  IF e.attempt = 0 THEN Append(rest, e.keys) ELSE rest
RECURSIVE Concat(_)
Concat(ss) == IF ss = <<>> THEN <<>> ELSE Head(ss) \o Concat(Tail(ss))

\* the slices are consecutive, put together they are the list, none is longer
\* than batch_size and all but the last are as long
SlicesPartitionTheList ==
    p_end = "returned" =>
        LET bs == Batches(p_log)
        IN  /\ Concat(bs) = p_keys
            /\ \A j \in 1..Len(bs) :
                  /\ Len(bs[j]) <= batch_size
                  /\ j < Len(bs) => Len(bs[j]) = batch_size

\* C18: the slices partition the key list as above, and so every key is
\* requested in exactly one batch
C18_EachKeyInOneBatch ==
    /\ SlicesPartitionTheList
    /\ p_end = "returned" =>
          LET bs == Batches(p_log)
          IN  \A k \in KeySet(p_keys) :
                 Cardinality({j \in 1..Len(bs) : k \in KeySet(bs[j])}) = 1

-----------------------------------------------------------------------------
(* Properties of the startup order *)

\* C15: the poll runs before the streamer is started: when the poll has just
\* run no entry has been written by on_message, and an entry written by
\* on_message is only found once the streamer runs
C15_PollBeforeStream ==
    /\ op = "initial_rest_poll" =>
          /\ phase = "polled"
          /\ \A k \in DOMAIN applied : applied[k].by = "initial_rest_poll"
    /\ (\E k \in DOMAIN applied : applied[k].by = "on_message") => phase = "streaming"

\* the poll wrote two entries and the streamer has since replaced one of them
C15_Witness ==
    /\ phase = "streaming" /\ op = "on_message"
    /\ \E k \in DOMAIN applied : applied[k].by = "initial_rest_poll"
    /\ \E k \in DOMAIN applied : applied[k].by = "on_message" /\ market_state[k] = applied[k].q

-----------------------------------------------------------------------------
(* Properties of on_message *)

\* what one call of on_message did: the frame was not a live feed and
\* market_state is as before, or it was and market_state now has the values
\* of the frame under every id of its feeds and is as before elsewhere
FrameRespected ==
    LET m == fr_message'
    IN  IF m.type # "live_feed" THEN fr_ms' = fr_ms
        ELSE /\ DOMAIN fr_ms' = DOMAIN fr_ms \cup DOMAIN m.feeds
             /\ \A k \in DOMAIN m.feeds : fr_ms'[k] = feed_quote(m.feeds[k])
             /\ \A k \in DOMAIN fr_ms \ DOMAIN m.feeds : fr_ms'[k] = fr_ms[k]

\* C19: on_message changes nothing for a frame that is not a live feed, and
\* for a live feed writes the ids of its feeds and no other entry; nothing
\* but market_state is ever changed
C19_OnMessageFrame ==
    [][(fr_calls' # fr_calls) => (FrameRespected /\ UNCHANGED <<fr_prog, frameOthers>>)]_vars

\* a frame of another type, carrying feeds, has just been ignored while
\* market_state holds an entry that a live feed wrote
C19_Witness ==
    /\ fr_message # None /\ fr_message.type = "market_info"
    /\ DOMAIN fr_message.feeds = {"K1"}
    /\ DOMAIN fr_ms = {"K2"} /\ ~AllNull(fr_ms["K2"])
    /\ fr_ms["K2"] # feed_quote(fr_message.feeds["K1"])

-----------------------------------------------------------------------------
(* Properties of the refresh tick *)

\* C20: in f2fspread1.py a tick that returns before on_message was ever
\* called returns no_update for both outputs, and a tick that starts after
\* the update of an instrument has been processed returns the table
C20_TickSkipsUntilFirstUpdate ==
    tk_pc["ui"] = "returned" =>
        /\ ~tk_begun => tk_ret = <<no_update, no_update>>
        /\ tk_after => tk_ret[1] = Table

\* the only update so far is of an id without a symbol, so updated_symbols is
\* still empty, and the tick that started after it returned the table
C20_Witness ==
    /\ tk_pc["ui"] = "returned" /\ tk_after
    /\ updated_symbols = {} /\ tk_written # {}
    /\ tk_ret[1] = Table

-----------------------------------------------------------------------------
(***************************************************************************)
(* SpecExpiry: the nearest expiry of an underlying (f1.py,                 *)
(* futurestockslist.py).  An expiry is a stamp (milliseconds in the code,  *)
(* half days here); a date is the day a stamp falls on.                    *)
(***************************************************************************)
MaxExpiries == 3     \* instruments.json has up to MaxExpiries records here
MaxStamp == 5        \* stamps range over 0..MaxStamp
StampsPerDay == 2    \* 86,400,000 ms in the code

NoKey == [t |-> "absent"]
Date(d) == [t |-> "date", days |-> d]
Stamp(n) == [t |-> "int", v |-> n]

\* datetime.fromtimestamp(ts / 1000, tz=timezone.utc).date()
date_of(ts) == ts \div StampsPerDay

ExpiryVals == {NoKey} \cup {Stamp(n) : n \in 0..MaxStamp}
ExpiryRecord(k, sym, e) ==
    [underlying_key |-> k, underlying_symbol |-> sym, segment |-> "NSE_FO",
     instrument_type |-> "FUT", expiry |-> e]
ExpiryPool ==
    {ExpiryRecord("NSE_INDEX|Nifty 50", "NIFTY", e) : e \in ExpiryVals}
        \cup {ExpiryRecord("NSE_INDEX|Nifty Bank", "BANKNIFTY", Stamp(1))}
ExpiryLists == UNION {[1..n -> ExpiryPool] : n \in 0..MaxExpiries}

\* "expiry" in instrument and instrument["expiry"]
has_expiry(instrument) == instrument.expiry # NoKey /\ instrument.expiry.v # 0

\* the list expiry_dates the loop of get_nearest_expiry builds
expiry_dates(instrument_key, instruments_data) ==
    LET matching == SelectSeq(instruments_data,
                        LAMBDA i : i.underlying_key = instrument_key /\ has_expiry(i))
    IN [k \in 1..Len(matching) |-> date_of(matching[k].expiry.v)]

\* float('inf') of the key function: larger than every difference of days
inf == date_of(MaxStamp) + 1

\* the key of min: the days from today, inf for a day before today
days_ahead(x, today_utc) == IF x - today_utc >= 0 THEN x - today_utc ELSE inf

\* min(list, key=...): the first element whose key is the least
first_min(dates, today_utc) ==
    LET key(k) == days_ahead(dates[k], today_utc)
        best == CHOOSE k \in 1..Len(dates) :
                    /\ \A j \in 1..Len(dates) : key(k) <= key(j)
                    /\ \A j \in 1..(k - 1) : key(j) > key(k)
    IN dates[best]

get_nearest_expiry(instrument_key, instruments_data, now) ==
    LET today_utc == date_of(now)
        dates == expiry_dates(instrument_key, instruments_data)
    IN IF dates # <<>> THEN Date(first_min(dates, today_utc)) ELSE None

\* futurestockslist.py: the least stamp not before now among the futures of
\* the symbol; inst['expiry'] raises KeyError on a record without the key
find_nearest_expiry(segment, instrument_type, underlying_symbol, instruments, now) ==
    LET reliance_futures == SelectSeq(instruments,
            LAMBDA i : /\ i.segment = segment /\ i.instrument_type = instrument_type
                       /\ i.underlying_symbol = underlying_symbol)
        valid_expiries == {reliance_futures[k].expiry.v : k \in
            {j \in 1..Len(reliance_futures) : reliance_futures[j].expiry.v >= now}}
    IN IF reliance_futures = <<>> THEN None
       ELSE IF \E k \in 1..Len(reliance_futures) : reliance_futures[k].expiry = NoKey
            THEN KeyError
       ELSE IF valid_expiries = {} THEN None
       ELSE Stamp(CHOOSE m \in valid_expiries : \A e \in valid_expiries : m <= e)

InitExpiry ==
    /\ ex_prog \in {"f1", "futurestockslist"}
    /\ ex_pc = "call"
    /\ ex_now \in 0..MaxStamp
    /\ ex_key = IF ex_prog = "f1" THEN Str("NSE_INDEX|Nifty 50") ELSE Str("NIFTY")
    /\ ex_instruments \in ExpiryLists
    /\ ex_ret = None /\ ex_out = ""
    /\ IdleExpOthers

\* f1.py, one turn of the loop of fetch_option_chain: the expiry is looked
\* up, and the instrument is skipped when the lookup gave nothing
fetch_option_chain ==
    /\ ex_prog = "f1" /\ ex_pc = "call"
    /\ ex_ret' = get_nearest_expiry(ex_key.s, ex_instruments, ex_now)
    /\ ex_out' = IF ex_ret' = None THEN "skipped" ELSE "requested"
    /\ ex_pc' = "done"
    /\ UNCHANGED <<ex_prog, ex_now, ex_key, ex_instruments>> /\ UNCHANGED expOthers

\* futurestockslist.py: find_nearest_expiry on the futures of the symbol
FindNearestExpiry ==
    /\ ex_prog = "futurestockslist" /\ ex_pc = "call"
    /\ ex_ret' = find_nearest_expiry("NSE_FO", "FUT", ex_key.s, ex_instruments, ex_now)
    /\ ex_pc' = "done"
    /\ UNCHANGED <<ex_prog, ex_now, ex_key, ex_instruments, ex_out>> /\ UNCHANGED expOthers

NextExpiry == fetch_option_chain \/ FindNearestExpiry

SpecExpiry == InitExpiry /\ [][NextExpiry]_vars

\* the days, on or after today, the instrument has an expiry on
DaysFromToday ==
    LET dates == expiry_dates(ex_key.s, ex_instruments)
    IN {dates[k] : k \in {j \in 1..Len(dates) : dates[j] >= date_of(ex_now)}}

\* C21: get_nearest_expiry returns the expiry day closest to today among the
\* instrument's expiry days on or after today, returns None when there is no
\* such day, in which case fetch_option_chain skips the instrument, and never
\* returns a day before today.
C21_NearestExpiry ==
    (ex_prog = "f1" /\ ex_pc = "done") =>
        /\ DaysFromToday = {} => (ex_ret = None /\ ex_out = "skipped")
        /\ DaysFromToday # {} =>
               /\ ex_ret # None
               /\ ex_ret.days \in DaysFromToday
               /\ \A d \in DaysFromToday : ex_ret.days <= d
        /\ ex_ret # None => ex_ret.days >= date_of(ex_now)

-----------------------------------------------------------------------------
\* C22: the retrying poll of f2fspread.py ends for every sequence of answers
\* (success, HTTP error, 401, timeout, connection error, malformed payload):
\* initial_rest_poll comes back to the module after at most max_retries
\* requests per batch, and start_sdk_streamer is then called.
RequestsAreFinite ==
    p_prog = "f2fspread" =>
        /\ Len(p_log) <= max_retries * Cardinality(BatchStarts)
        /\ p_end # "raised"
C22_PollTerminates ==
    /\ [](RequestsAreFinite)
    /\ (p_prog = "f2fspread") ~> (p_pc = "streaming")
C22_Witness ==
    /\ p_prog = "f2fspread" /\ p_pc = "streaming" /\ p_end = "interrupted"
    /\ \E n \in 1..Len(p_log) : p_log[n].kind = "Exception"
    /\ \E n \in 1..Len(p_log) : p_log[n].kind = "Timeout" /\ p_log[n].attempt = max_retries - 1

-----------------------------------------------------------------------------
(***************************************************************************)
(* SpecTable: the refresh callback of f2fspread_main1.py, call after call. *)
(***************************************************************************)
NameError == [error |-> "NameError"]

\* the names f2fspread_main1.py binds at module level that update_table uses
\* (lines 1-15 import, 174 def build_df, 218-233 the three inputs)
module_globals_main1 ==
    {"build_df", "underlyings", "instrument_data_list", "margin_df", "datetime", "print"}

\* the frames build_df can give: one row per underlying, a cell NaN where the
\* value is missing
Cells == {NaN, F(0), F(1)}
FrameRow(sym, c) == [Symbol |-> sym, Near_ltp |-> c]
DataFrame(rows) == [t |-> "DataFrame", rows |-> rows]
DataFrames ==
    UNION {{DataFrame([j \in 1..n |-> FrameRow(j, cs[j])]) : cs \in [1..n -> Cells]} :
               n \in 0..MaxRows}
BuildErrors == {KeyError, ZeroDivisionError}

IsFrame(df) == df # None /\ df \notin BuildErrors

\* df.fillna("")
fillna(df) ==
    DataFrame([j \in 1..Len(df.rows) |->
                  [df.rows[j] EXCEPT !.Near_ltp = IF @ = NaN THEN Str("") ELSE @]])

\* df.to_dict("records"): a list with one dict per row
to_dict(df) == [j \in 1..Len(df.rows) |-> [c \in {"Symbol", "Near_ltp"} |->
                    IF c = "Symbol" THEN df.rows[j].Symbol ELSE df.rows[j].Near_ltp]]

\* the pair a callback returns: the table data and the label
Outputs(data, label) == [data |-> data, label |-> label]

LastUpdated == [label |-> "Last updated"]
ErrorLabel(e) == [label |-> "Error", e |-> e]

\* lines 308-310 of update_table, run with the module's names g: the lookup
\* of cached_df raises NameError when the module does not bind it
finish(df, g) ==
    IF "cached_df" \in g
    THEN [ret |-> Outputs(to_dict(df), LastUpdated), raised |-> None]
    ELSE [ret |-> None, raised |-> NameError]

InitTable ==
    /\ ut_pc = "idle" /\ ut_df = None /\ ut_ret = None /\ ut_shown = None /\ ut_raised = None
    /\ IdleUtOthers

\* the interval fires: update_table(_) is called
U1_Call ==
    /\ ut_pc = "idle"
    /\ ut_pc' = "try" /\ ut_df' = None /\ ut_ret' = None /\ ut_raised' = None
    /\ UNCHANGED ut_shown /\ UNCHANGED utOthers

\* try: df = build_df(underlyings, instrument_data_list, margin_df).fillna("")
U1_Build ==
    /\ ut_pc = "try"
    /\ \/ \E df \in DataFrames : ut_df' = fillna(df) /\ ut_pc' = "built"
       \/ \E e \in BuildErrors : ut_df' = e /\ ut_pc' = "except"
    /\ UNCHANGED <<ut_ret, ut_shown, ut_raised>> /\ UNCHANGED utOthers

\* except Exception as e: return [], f"Error: {e}"
U1_Except ==
    /\ ut_pc = "except"
    /\ ut_ret' = Outputs(<<>>, ErrorLabel(ut_df))
    /\ ut_shown' = ut_ret'
    /\ ut_pc' = "idle"
    /\ UNCHANGED <<ut_df, ut_raised>> /\ UNCHANGED utOthers

\* now = ...; cached_df.cache_clear(); return df.to_dict("records"), ...
U1_Finish ==
    /\ ut_pc = "built"
    /\ LET f == finish(ut_df, module_globals_main1)
       IN  /\ ut_ret' = f.ret /\ ut_raised' = f.raised
           /\ ut_shown' = IF f.raised = None THEN f.ret ELSE ut_shown
    /\ ut_pc' = "idle"
    /\ UNCHANGED ut_df /\ UNCHANGED utOthers

NextTable == U1_Call \/ U1_Build \/ U1_Except \/ U1_Finish

SpecTable == InitTable /\ [][NextTable]_vars

\* C23: in f2fspread_main1.py, whenever build_df succeeds update_table returns
\* the table records with a 'Last updated' label; it returns the error
\* outcome ([], 'Error: ...') only when build_df raised; and the callback
\* lets no error escape.
C23_UpdateTableOutcome ==
    (ut_pc = "idle" /\ ut_df # None) =>
        /\ IsFrame(ut_df) => ut_ret = Outputs(to_dict(ut_df), LastUpdated)
        /\ (ut_ret # None /\ ut_ret.label # LastUpdated) => ut_df \in BuildErrors
        /\ ut_raised = None

-----------------------------------------------------------------------------
\* C24: load_state_from_file of f2fspread_main.py never raises: it returns
\* the contents of the snapshot file when the file exists and parses, and
\* otherwise (file missing, not opened or not parsed) a copy of market_state
\* taken under the lock; what it returned reads the same whatever is written
\* to the cache afterwards.
LoadReturns == sn_pc["ui"] # "idle" /\ sn_pc'["ui"] = "idle"
LoadOutcome ==
    LoadReturns =>
        /\ sn_state' # None
        /\ sn_pc["ui"] = "load" =>
               (sn_open.t = "file" /\ sn_state' = json_load(sn_open))
        /\ sn_pc["ui"] = "fallback" =>
               (sn_lock = "free" /\ contents(sn_state') = sn_ms)
LoadFallsBack ==
    (sn_pc["ui"] # "fallback" /\ sn_pc'["ui"] = "fallback") =>
        \/ sn_pc["ui"] = "idle" /\ sn_fs[STATE_PATH] = NoFile
        \/ sn_pc["ui"] = "open" /\ sn_open' = NoFile
        \/ sn_pc["ui"] = "load" /\ sn_open.t # "file"
ReturnedMappingIsStable ==
    (sn_pc["ui"] = "idle" /\ sn_pc'["ui"] = "idle" /\ sn_state # None) =>
        contents(sn_state)' = contents(sn_state)
C24_LoadNeverRaises ==
    /\ [](sn_pc["ui"] \in {"idle", "open", "load", "fallback"})
    /\ [][LoadOutcome /\ LoadFallsBack /\ ReturnedMappingIsStable]_vars

\* the file holds the snapshot of the empty cache and open failed: the load
\* fell back to the copy, and the cache has since got an entry the copy does
\* not have
C24_Witness ==
    /\ sn_pc["ui"] = "idle" /\ sn_state # None
    /\ sn_fs[STATE_PATH] = json_dumps(EmptyDict)
    /\ sn_state # EmptyDict
    /\ DOMAIN sn_state # DOMAIN sn_ms

-----------------------------------------------------------------------------
(***************************************************************************)
(* SpecRow: build_df reads the three quotes of one row while the streamer  *)
(* writes and, in f2fspread_main.py, the snapshot file is replaced.  Each  *)
(* action is one critical section of market_state_lock, or one call that   *)
(* touches the file.                                                       *)
(***************************************************************************)
MaxWrites == 3      \* the streamer writes up to MaxWrites entries

\* the near, next and far contract of the underlying
RowKeys == <<"NEAR", "NEXT", "FAR">>

\* the n-th quote the feed delivers
RowQuote(n) == Entry(Price(n), Price(n), Price(n))

\* get_state as build_df of the program calls it
row_get_state(p, ms, file, ik) ==
    IF p = "f2fspread" THEN get_state(ms, ik, tsym)
    ELSE get_state_main(file, ms, ik, TRUE)

\* the three quotes read from one and the same mapping
row_of(p, state) == [j \in 1..3 |-> row_get_state(p, state, NoFile, RowKeys[j])]

InitRow ==
    /\ rw_prog \in {"f2fspread", "f2fspread_main"}
    /\ rw_ms = EmptyDict /\ rw_file = NoFile /\ rw_hist = <<EmptyDict>>
    /\ rw_pc = "idle" /\ rw_row = <<>>
    /\ IdleRowOthers

\* on_message: with market_state_lock: market_state[ik] = {...}
R_Write ==
    /\ Len(rw_hist) <= MaxWrites
    /\ \E ik \in Range(RowKeys) :
          rw_ms' = Put(rw_ms, ik, RowQuote(Len(rw_hist)))
    /\ rw_hist' = Append(rw_hist, rw_ms')
    /\ UNCHANGED <<rw_prog, rw_file, rw_pc, rw_row>> /\ UNCHANGED rowOthers

\* f2fspread_main.py: snapshot_state_to_file, whose os.replace puts the whole
\* text in place in one step, or fails and leaves the file as it was
R_Snapshot ==
    /\ rw_prog = "f2fspread_main"
    /\ \E ok \in BOOLEAN : rw_file' = snapshot_state_to_file(rw_file, rw_ms, ok)
    /\ rw_file' # rw_file
    /\ UNCHANGED <<rw_prog, rw_ms, rw_hist, rw_pc, rw_row>> /\ UNCHANGED rowOthers

\* build_df: the loop comes to the underlying
R_Begin ==
    /\ rw_pc \in {"idle", "row"}
    /\ rw_pc' = "reading" /\ rw_row' = <<>>
    /\ UNCHANGED <<rw_prog, rw_ms, rw_file, rw_hist>> /\ UNCHANGED rowOthers

\* near_s = get_state(...), nxt_s = get_state(...), far_s = get_state(...):
\* one call, which takes the lock or reads the file on its own
R_GetState ==
    /\ rw_pc = "reading" /\ Len(rw_row) < 3
    /\ rw_row' = Append(rw_row, row_get_state(rw_prog, rw_ms, rw_file, RowKeys[Len(rw_row) + 1]))
    /\ UNCHANGED <<rw_prog, rw_ms, rw_file, rw_hist, rw_pc>> /\ UNCHANGED rowOthers

\* spreads = compute_spreads(near_s, nxt_s, far_s); rows.append({...})
R_Row ==
    /\ rw_pc = "reading" /\ Len(rw_row) = 3
    /\ rw_pc' = "row"
    /\ UNCHANGED <<rw_prog, rw_ms, rw_file, rw_hist, rw_row>> /\ UNCHANGED rowOthers

NextRow == R_Write \/ R_Snapshot \/ R_Begin \/ R_GetState \/ R_Row

SpecRow == InitRow /\ [][NextRow]_vars

\* C25: the near, next and far quotes a row of build_df is computed from all
\* belong to one and the same state of the cache: no write takes effect
\* between the reads of the three quotes.
C25_RowConsistency ==
    rw_pc = "row" =>
        \E n \in 1..Len(rw_hist) : rw_row = row_of(rw_prog, rw_hist[n])

-----------------------------------------------------------------------------
(***************************************************************************)
(* SpecQueue: f2fspread5.py, on_message against push_updates, statement by *)
(* statement around market_state_lock and update_queue.                    *)
(***************************************************************************)
MaxAppends == 3     \* the feed delivers up to MaxAppends entries

QueueThreads == {"stream", "push"}

\* the tracked underlyings and the keys of their futures; "Z1" is a key the
\* feed quotes that belongs to none of them
underlyings_5 == <<"A", "B">>
futs_5(sym) == IF sym = "A" THEN {"A1", "A2"} ELSE {"B1"}
FeedKeys_5 == {"A1", "B1", "Z1"}
Feeds_5 == {<<k>> : k \in FeedKeys_5}
               \cup {f \in {<<k, l>> : k \in FeedKeys_5, l \in FeedKeys_5} : f[1] # f[2]}

\* market_state[ik] = {"bidP": bid, "askP": ask, "ts": ...}
Entry_5 == [bidP |-> Price(1), askP |-> Price(1)]

\* market_state_lock = threading.Lock(): acquire goes through only when no
\* thread holds the lock, the caller included
can_acquire(holder, th) == holder = "free"

InitQueue ==
    /\ q_lock = "free"
    /\ q_pc = [th \in QueueThreads |-> IF th = "stream" THEN "idle" ELSE "loop"]
    /\ q_todo = <<>> /\ q_ms = EmptyDict
    /\ update_queue = <<>> /\ q_in = <<>> /\ q_out = <<>> /\ q_emits = <<>>
    /\ affected_symbol = None /\ q_sym = 0
    /\ IdleQ5Others

QGoto(th, loc) == q_pc' = [q_pc EXCEPT ![th] = loc]

\* on_message(message): a live feed with one or two entries
Q_Receive ==
    /\ q_pc["stream"] = "idle"
    /\ \E feeds \in Feeds_5 :
          /\ Len(q_in) + Len(feeds) <= MaxAppends
          /\ q_todo' = feeds
    /\ QGoto("stream", "msg")
    /\ UNCHANGED <<q_lock, q_ms, update_queue, q_in, q_out, q_emits, affected_symbol, q_sym>>
    /\ UNCHANGED q5Others

\* on_message: with market_state_lock, for the next entry
Q_MsgAcquire ==
    /\ q_pc["stream"] = "msg" /\ can_acquire(q_lock, "stream")
    /\ q_lock' = "stream" /\ QGoto("stream", "msg_locked")
    /\ UNCHANGED <<q_todo, q_ms, update_queue, q_in, q_out, q_emits, affected_symbol, q_sym>>
    /\ UNCHANGED q5Others

\* market_state[ik] = {...}; update_queue.append(ik); the lock is released
Q_MsgWrite ==
    /\ q_pc["stream"] = "msg_locked"
    /\ q_ms' = Put(q_ms, Head(q_todo), Entry_5)
    /\ update_queue' = Append(update_queue, Head(q_todo))
    /\ q_in' = Append(q_in, Head(q_todo))
    /\ q_todo' = Tail(q_todo)
    /\ q_lock' = "free"
    /\ QGoto("stream", IF q_todo' = <<>> THEN "idle" ELSE "msg")
    /\ UNCHANGED <<q_out, q_emits, affected_symbol, q_sym>>
    /\ UNCHANGED q5Others

\* push_updates: if update_queue: (an empty queue leads to the sleep and back)
Q_Check ==
    /\ q_pc["push"] = "loop" /\ update_queue # <<>>
    /\ QGoto("push", "acquire")
    /\ UNCHANGED <<q_lock, q_todo, q_ms, update_queue, q_in, q_out, q_emits, affected_symbol, q_sym>>
    /\ UNCHANGED q5Others

\* push_updates: with market_state_lock
Q_PushAcquire ==
    /\ q_pc["push"] = "acquire" /\ can_acquire(q_lock, "push")
    /\ q_lock' = "push" /\ QGoto("push", "pop")
    /\ UNCHANGED <<q_todo, q_ms, update_queue, q_in, q_out, q_emits, affected_symbol, q_sym>>
    /\ UNCHANGED q5Others

\* affected_symbol = update_queue.pop(0); the loop over underlyings starts
Q_Pop ==
    /\ q_pc["push"] = "pop"
    /\ affected_symbol' = Str(Head(update_queue))
    /\ update_queue' = Tail(update_queue)
    /\ q_out' = Append(q_out, Head(update_queue))
    /\ q_sym' = 1
    /\ QGoto("push", "scan")
    /\ UNCHANGED <<q_lock, q_todo, q_ms, q_in, q_emits>>
    /\ UNCHANGED q5Others

\* for sym in underlyings: futs = ...; if any(f["instrument_key"] == affected_symbol ...)
Q_Scan ==
    /\ q_pc["push"] = "scan" /\ q_sym <= Len(underlyings_5)
    /\ IF affected_symbol.s \in futs_5(underlyings_5[q_sym])
       THEN QGoto("push", "build_df") /\ UNCHANGED q_sym
       ELSE q_sym' = q_sym + 1 /\ UNCHANGED q_pc
    /\ UNCHANGED <<q_lock, q_todo, q_ms, update_queue, q_in, q_out, q_emits, affected_symbol>>
    /\ UNCHANGED q5Others

\* df = build_df([sym], instrument_data): its first get_state enters 'with
\* market_state_lock' and waits until the lock can be acquired; then the
\* frame is built, the lock of get_state released, socketio.emit called and
\* the loop left by break
Q_BuildDf ==
    /\ q_pc["push"] \in {"build_df", "get_state"}
    /\ IF can_acquire(q_lock, "push")
       THEN /\ q_emits' = Append(q_emits, [pop |-> Len(q_out), sym |-> underlyings_5[q_sym]])
            /\ QGoto("push", "release")
       ELSE /\ QGoto("push", "get_state")
            /\ UNCHANGED q_emits
    /\ UNCHANGED <<q_lock, q_todo, q_ms, update_queue, q_in, q_out, affected_symbol, q_sym>>
    /\ UNCHANGED q5Others

\* the with block of push_updates is left, after the break or at the end of
\* the loop over underlyings; time.sleep(0.1)
Q_Release ==
    /\ \/ q_pc["push"] = "release"
       \/ q_pc["push"] = "scan" /\ q_sym > Len(underlyings_5)
    /\ q_lock' = "free" /\ QGoto("push", "loop")
    /\ affected_symbol' = None /\ q_sym' = 0
    /\ UNCHANGED <<q_todo, q_ms, update_queue, q_in, q_out, q_emits>>
    /\ UNCHANGED q5Others

StreamSteps == Q_MsgAcquire \/ Q_MsgWrite
PushSteps == Q_Check \/ Q_PushAcquire \/ Q_Pop \/ Q_Scan \/ Q_BuildDf \/ Q_Release

NextQueue ==
    \/ Q_Receive
    \/ Q_MsgAcquire
    \/ Q_MsgWrite
    \/ Q_Check
    \/ Q_PushAcquire
    \/ Q_Pop
    \/ Q_Scan
    \/ Q_BuildDf
    \/ Q_Release

SpecQueue == InitQueue /\ [][NextQueue]_vars

\* both threads keep running: a step a thread can take is taken
SpecQueueLive == SpecQueue /\ WF_vars(StreamSteps) /\ WF_vars(PushSteps)

\* a thread stands at the entry of a 'with market_state_lock'
WaitsForLock(th) ==
    IF th = "stream" THEN q_pc[th] = "msg" ELSE q_pc[th] \in {"acquire", "build_df", "get_state"}

\* C26: deadlock freedom in f2fspread5.py: no thread waits for
\* market_state_lock while it holds the lock itself, the lock is never held
\* forever (push_updates releases it after processing a queued key), and
\* on_message, once it waits for the lock, eventually acquires it.
C26_DeadlockFreedom ==
    /\ [](\A th \in QueueThreads : WaitsForLock(th) => q_lock # th)
    /\ (q_lock = "push") ~> (q_lock # "push")
    /\ (q_pc["stream"] = "msg") ~> (q_pc["stream"] = "msg_locked")

IsPrefix(a, b) == Len(a) <= Len(b) /\ SubSeq(b, 1, Len(a)) = a

\* the first tracked underlying that has the key among its futures, if any
FirstUnderlying(k) ==
    LET having == {i \in 1..Len(underlyings_5) : k \in futs_5(underlyings_5[i])}
    IN  IF having = {} THEN None
        ELSE Str(underlyings_5[CHOOSE i \in having : \A j \in having : i <= j])

\* C27: in f2fspread5.py every key appended to update_queue is eventually
\* removed by push_updates, keys are removed in the order they were
\* appended, and a removed key causes at most one table_update, for the first
\* tracked underlying that has the key among its futures.
C27_QueueDrains ==
    /\ [](IsPrefix(q_out, q_in))
    /\ [](\A e \in 1..Len(q_emits) :
             /\ \A f \in 1..Len(q_emits) : q_emits[f].pop = q_emits[e].pop => f = e
             /\ Str(q_emits[e].sym) = FirstUnderlying(q_out[q_emits[e].pop]))
    /\ \A n \in 1..MaxAppends : (Len(q_in) >= n) ~> (Len(q_out) >= n)

-----------------------------------------------------------------------------
(***************************************************************************)
(* SpecLru: f2fspread_main.py, update_table on two threads of one worker   *)
(* (gunicorn.conf.py: worker_class gthread, threads = 4) around cached_df. *)
(***************************************************************************)
MaxVersions == 2    \* the state build_df reads is updated up to MaxVersions times

LruThreads == {"t1", "t2"}

\* the table build_df gives: who built it, from which version of the state
BuiltTable(th, v) == [t |-> "DataFrame", by |-> th, version |-> v]

\* lru_cache: the lookup of the key () finds a table in the slot
cache_hit(cache) == cache # None

InitLru ==
    /\ lr_pc = [th \in LruThreads |-> "idle"]
    /\ lr_cache = None
    /\ lr_df = [th \in LruThreads |-> None]
    /\ lr_ret = [th \in LruThreads |-> None]
    /\ lr_start = [th \in LruThreads |-> 0]
    /\ lr_version = 0
    /\ IdleLruOthers

LGoto(th, loc) == lr_pc' = [lr_pc EXCEPT ![th] = loc]

\* the streamer and the snapshot writer go on: the state build_df reads changes
C_Update ==
    /\ lr_version < MaxVersions
    /\ lr_version' = lr_version + 1
    /\ UNCHANGED <<lr_pc, lr_cache, lr_df, lr_ret, lr_start>> /\ UNCHANGED lruOthers

\* the interval of a viewer fires: update_table(_) starts on a thread
C_Tick ==
    /\ \E th \in LruThreads :
          /\ lr_pc[th] = "idle"
          /\ LGoto(th, "lookup")
          /\ lr_start' = [lr_start EXCEPT ![th] = lr_version]
          /\ lr_df' = [lr_df EXCEPT ![th] = None]
    /\ UNCHANGED <<lr_cache, lr_ret, lr_version>> /\ UNCHANGED lruOthers

\* df = cached_df(): the wrapper looks the key up; a hit returns the table in
\* the slot, a miss goes on to call build_df
C_Lookup ==
    /\ \E th \in LruThreads :
          /\ lr_pc[th] = "lookup"
          /\ IF cache_hit(lr_cache)
             THEN lr_df' = [lr_df EXCEPT ![th] = lr_cache] /\ LGoto(th, "clear")
             ELSE UNCHANGED lr_df /\ LGoto(th, "build")
    /\ UNCHANGED <<lr_cache, lr_ret, lr_start, lr_version>> /\ UNCHANGED lruOthers

\* build_df(underlyings, instrument_data_list, margin_df), outside any lock
\* of the wrapper
C_Build ==
    /\ \E th \in LruThreads :
          /\ lr_pc[th] = "build"
          /\ lr_df' = [lr_df EXCEPT ![th] = BuiltTable(th, lr_version)]
          /\ LGoto(th, "store")
    /\ UNCHANGED <<lr_cache, lr_ret, lr_start, lr_version>> /\ UNCHANGED lruOthers

\* the wrapper puts the result in the slot, unless the key got there during
\* the call, and returns the result
C_Store ==
    /\ \E th \in LruThreads :
          /\ lr_pc[th] = "store"
          /\ lr_cache' = IF lr_cache = None THEN lr_df[th] ELSE lr_cache
          /\ LGoto(th, "clear")
    /\ UNCHANGED <<lr_df, lr_ret, lr_start, lr_version>> /\ UNCHANGED lruOthers

\* cached_df.cache_clear()
C_Clear ==
    /\ \E th \in LruThreads :
          /\ lr_pc[th] = "clear"
          /\ lr_cache' = None
          /\ LGoto(th, "return")
    /\ UNCHANGED <<lr_df, lr_ret, lr_start, lr_version>> /\ UNCHANGED lruOthers

\* return df.to_dict("records"), f"Last update: {now}"
C_Return ==
    /\ \E th \in LruThreads :
          /\ lr_pc[th] = "return"
          /\ lr_ret' = [lr_ret EXCEPT ![th] = lr_df[th]]
          /\ LGoto(th, "idle")
    /\ UNCHANGED <<lr_cache, lr_df, lr_start, lr_version>> /\ UNCHANGED lruOthers

NextLru == C_Update \/ C_Tick \/ C_Lookup \/ C_Build \/ C_Store \/ C_Clear \/ C_Return

SpecLru == InitLru /\ [][NextLru]_vars

\* C28: in f2fspread_main.py every refresh tick returns a table built during
\* that same tick: under concurrent ticks cached_df never hands a tick a
\* table that another tick built, from a state older than the tick.
C28_TickReturnsOwnTable ==
    \A th \in LruThreads :
        (lr_pc[th] = "return") =>
            /\ lr_df[th].by = th
            /\ lr_df[th].version >= lr_start[th]

-----------------------------------------------------------------------------
(* Null percentages against null absolute spreads (SpecSpread) *)

\* C29 as stated: in every compute_spreads variant that returns percentage
\* spreads, with the near last price present, the percentage under a
\* spread's name is null exactly when the absolute value under that same
\* name is null, for every combination of present and missing bids and asks.
C29_PctNullIffAbsNull ==
    (ran \in WithPct /\ NearLast # None) =>
        \A d \in Directions :
            (spreads[PctKey(d)] = None) <=> (spreads[SpreadKey(d)] = None)

=============================================================================
